---- MODULE Spec2Model ----
(***************************************************************************)
(* DispatchIQ backend: the account provisioning workflow (signup, signin,  *)
(* email verification), first-time onboarding and the tenant-scoped CRUD   *)
(* handlers, as state machines over the rows of the hosted stores.         *)
(*                                                                         *)
(* The credential store (identities) and the relational store (tables) are *)
(* the state; every handler is an action.  A reply of a store that the     *)
(* code branches on (a raised error, an empty `data`) is an input of the   *)
(* action.  Row ids (UUIDs in the program) are the integers 1, 2, ...      *)
(* drawn from one counter, so no two rows of any table share an id.        *)
(***************************************************************************)
EXTENDS Integers, Sequences, FiniteSets, TLC

VARIABLES
    auth_users,         \* credential store: identities [id, email, password, confirmed]
    companies,          \* table companies: [id, name, settings]
    app_users,          \* table app_users: [id, user_id, company_id]
    properties,         \* table properties: [id, company_id, name]
    property_units,     \* table property_units: [id, company_id, property_id, label]
    technicians,        \* table technicians: [id, company_id, default_property_id, first_name]
    work_orders,        \* table work_orders: [id, company_id, property_id, unit_id,
                        \*     assigned_technician_id, status, priority]
    emergency_vendors,  \* table emergency_vendors: [id, company_id, name]
    nextId,             \* the next fresh row id
    onb,                \* first-time onboarding requests in flight, per request slot
    google,             \* Google sign-ins in flight, per request slot
    owners,             \* table owners: [user_id, role, pma_document_url]
    subcontractors,     \* table subcontractors: [user_id]
    last                \* the outcome of the last completed call

vars == <<auth_users, companies, app_users, properties, property_units,
          technicians, work_orders, emergency_vendors, nextId, onb, google,
          owners, subcontractors, last>>

authTables == <<auth_users, companies, app_users>>
crudTables == <<properties, property_units, technicians, work_orders>>
roleTables == <<owners, subcontractors>>

\* Python's None, and the id no row has.
NULL == 0

\* A field a request leaves out, or a column never written (None).
Unset == "<unset>"

\* The columns of a company that first-time onboarding writes, before it has.
NoSettings == [timezone |-> Unset, work_hours_start |-> <<>>, work_hours_end |-> <<>>]

\* ------------------------------------------------------------------ bounds
\* The number of identities admin.create_user creates in a run.
MaxSignups == 2

Emails == {"a@x.com", "b@x.com"}
CompanyNames == {"Acme"}

Ids(rows) == {r.id : r \in rows}

\* ------------------------------------------------------- password policy
\* A password is a sequence of runs [c, n]: n characters of class c.  The
\* classes are those PASSWORD_REGEX tells apart: a lowercase letter, an
\* uppercase letter, a digit, a symbol of @$!%*?&, a line feed, any other
\* character.
MinPasswordLength == 8
MaxPasswordLength == 64

RequiredClasses == <<"lower", "upper", "digit", "symbol">>

RECURSIVE RunsLen(_)
RunsLen(runs) ==
    IF runs = <<>> THEN 0 ELSE Head(runs).n + RunsLen(Tail(runs))

\* The runs before the first line feed: what `.` can match from position 0.
RECURSIVE FirstLine(_)
FirstLine(runs) ==
    IF runs = <<>> \/ Head(runs).c = "nl" THEN <<>>
    ELSE <<Head(runs)>> \o FirstLine(Tail(runs))

\* What follows the first line, the line feed included.
RECURSIVE AfterFirstLine(_)
AfterFirstLine(runs) ==
    IF runs = <<>> \/ Head(runs).c = "nl" THEN runs
    ELSE AfterFirstLine(Tail(runs))

\* (?=.*[x]) at position 0: `.*` does not cross a line feed.
Lookahead(runs, class) ==
    \E i \in 1..Len(FirstLine(runs)) :
        FirstLine(runs)[i].c = class /\ FirstLine(runs)[i].n > 0

\* .{8,64}$ at position 0: `.` stops at a line feed, and `$` matches at the
\* end of the string or just before a line feed that ends the string.
DotRangeDollar(runs) ==
    /\ RunsLen(FirstLine(runs)) >= MinPasswordLength
    /\ RunsLen(FirstLine(runs)) <= MaxPasswordLength
    /\ \/ AfterFirstLine(runs) = <<>>
       \/ AfterFirstLine(runs) = <<[c |-> "nl", n |-> 1]>>

validate_password_strength(password) ==
    /\ \A i \in 1..Len(RequiredClasses) : Lookahead(password, RequiredClasses[i])
    /\ DotRangeDollar(password)

\* The passwords tried: all four required classes or all but one (one
\* character each), padded with other characters to lengths around the two
\* limits, alone or followed by a line feed or by a line feed and more.
PadLens == {MinPasswordLength - 5, MinPasswordLength - 4,
            MaxPasswordLength - 4, MaxPasswordLength - 3}
PasswordTails == {<<>>, <<[c |-> "nl", n |-> 1]>>,
                  <<[c |-> "nl", n |-> 1], [c |-> "other", n |-> 1]>>}

ClassRuns(cs) ==
    SelectSeq([i \in 1..Len(RequiredClasses) |-> [c |-> RequiredClasses[i], n |-> 1]],
              LAMBDA r : r.c \in cs)

AllRequired == {RequiredClasses[i] : i \in 1..Len(RequiredClasses)}

Passwords ==
    {ClassRuns(cs) \o <<[c |-> "other", n |-> p]>> \o t :
        cs \in {AllRequired} \cup {AllRequired \ {c} : c \in AllRequired},
        p \in PadLens, t \in PasswordTails}

\* --------------------------------------------------------------- signup
EmailTaken(email) == \E u \in auth_users : u.email = email

NoResult == [id |-> NULL, email |-> "", confirmed |-> FALSE, company_id |-> NULL]

\* The replies of the stores signup_user branches on, one record per path
\* through the function (a reply the path never asks for is "na").
\*   create:  admin.create_user returns a user, returns none, or raises
\*            (it raises for an email that is already registered);
\*   trigger: whether the store's own trigger inserted the app_users row;
\*   company: companies.insert returns the row, returns no data, or raises;
\*   update / insert: the app_users calls; otp: the verification-code send;
\*   delete_user / delete_company: the compensating deletes;
\*   cascade: whether deleting the identity removes its trigger-made row.
SignupPath(create, trigger, company, update, insert, otp, du, dc, cascade) ==
    [create |-> create, trigger |-> trigger, company |-> company,
     update |-> update, insert |-> insert, otp |-> otp,
     delete_user |-> du, delete_company |-> dc, cascade |-> cascade]

OtpReplies == {"sent", "non2xx_resend_ok", "non2xx_resend_raise", "raise"}
DeleteReplies == {"ok", "raise"}

SignupReplies(email) ==
    IF EmailTaken(email)
    THEN {SignupPath("raise", FALSE, "na", "na", "na", "na", "na", "na", FALSE)}
    ELSE
      {SignupPath(c, FALSE, "na", "na", "na", "na", "na", "na", FALSE) :
          c \in {"nouser", "raise"}}
      \cup
      {SignupPath("user", t, k, "na", "na", "na", du, "na", cs) :
          t \in BOOLEAN, k \in {"empty", "raise"}, du \in DeleteReplies,
          cs \in BOOLEAN}
      \cup
      {SignupPath("user", t, "row", "raise", "na", "na", du, dc, cs) :
          t \in BOOLEAN, du \in DeleteReplies, dc \in DeleteReplies, cs \in BOOLEAN}
      \cup
      {SignupPath("user", TRUE, "row", "ok", "na", o, "na", "na", FALSE) :
          o \in OtpReplies}
      \cup
      {SignupPath("user", FALSE, "row", "ok", "row", o, "na", "na", FALSE) :
          o \in OtpReplies}
      \cup
      {SignupPath("user", FALSE, "row", "ok", i, "na", du, dc, FALSE) :
          i \in {"empty", "raise"}, du \in DeleteReplies, dc \in DeleteReplies}

\* Lines 60-74: update the profile row of the identity; when the update
\* returns no row, insert one.  [rows, ok, calls, inserted].
UpsertProfileAlwaysInserts(rows, user_id, company_id, fresh, insert) ==
    LET updated == {r \in rows : r.user_id = user_id}
        rows1 == (rows \ updated)
                 \cup {[r EXCEPT !.company_id = company_id] : r \in updated}
    IN  [rows |-> rows1 \cup {[id |-> fresh + 1, user_id |-> user_id,
                               company_id |-> company_id]},
         ok |-> TRUE, calls |-> <<"app_users.update", "app_users.insert">>,
         inserted |-> fresh + 1]

UpsertProfile(rows, user_id, company_id, fresh, insert) ==
    LET updated == {r \in rows : r.user_id = user_id}
        rows1 == (rows \ updated)
                 \cup {[r EXCEPT !.company_id = company_id] : r \in updated}
    IN  IF updated # {}
        THEN [rows |-> rows1, ok |-> TRUE, calls |-> <<"app_users.update">>,
              inserted |-> NULL]
        ELSE IF insert = "row"
        THEN [rows |-> rows1 \cup {[id |-> fresh, user_id |-> user_id,
                                    company_id |-> company_id]},
              ok |-> TRUE, calls |-> <<"app_users.update", "app_users.insert">>,
              inserted |-> fresh]
        ELSE [rows |-> rows1, ok |-> FALSE,
              calls |-> <<"app_users.update", "app_users.insert">>,
              inserted |-> NULL]

\* Lines 78-115: the verification-code send.  The calls it makes, and whether
\* an error leaves the inner try (it never does: both handlers swallow it).
SendOtpCalls(otp) ==
    IF otp \in {"non2xx_resend_ok", "non2xx_resend_raise"}
    THEN <<"otp", "resend">> ELSE <<"otp">>

SendOtpRaisesOnError(otp) == otp \in {"raise", "non2xx_resend_raise"}

SendOtpRaises(otp) == FALSE

\* Lines 125-136: the compensating deletes, each in its own try.
\* [users, companies, rows, calls].
SignupCleanupStopsAtFirstError(user_id, company_id, users, comps, rows, e) ==
    LET del_u == user_id # NULL /\ e.delete_user = "ok"
        try_c == company_id # NULL /\ (user_id = NULL \/ e.delete_user = "ok")
        del_c == try_c /\ e.delete_company = "ok"
    IN  [users |-> IF del_u THEN {u \in users : u.id # user_id} ELSE users,
         companies |-> IF del_c THEN {c \in comps : c.id # company_id} ELSE comps,
         rows |-> IF del_u /\ e.cascade
                  THEN {r \in rows : r.user_id # user_id} ELSE rows,
         calls |-> (IF user_id # NULL THEN <<"delete_user">> ELSE <<>>)
                   \o (IF try_c THEN <<"companies.delete">> ELSE <<>>)]

SignupCleanup(user_id, company_id, users, comps, rows, e) ==
    LET del_u == user_id # NULL /\ e.delete_user = "ok"
        del_c == company_id # NULL /\ e.delete_company = "ok"
    IN  [users |-> IF del_u THEN {u \in users : u.id # user_id} ELSE users,
         companies |-> IF del_c THEN {c \in comps : c.id # company_id} ELSE comps,
         rows |-> IF del_u /\ e.cascade
                  THEN {r \in rows : r.user_id # user_id} ELSE rows,
         calls |-> (IF user_id # NULL THEN <<"delete_user">> ELSE <<>>)
                   \o (IF company_id # NULL THEN <<"companies.delete">> ELSE <<>>)]

\* signup_user past the password check, under the replies e: the stores it
\* leaves and what it returns or raises.
SignupRun(email, password, company_name, e) ==
    LET created == e.create = "user"
        user_id == IF created THEN nextId ELSE NULL
        users1 == IF created
                  THEN auth_users \cup {[id |-> nextId, email |-> email,
                                         password |-> password, confirmed |-> FALSE]}
                  ELSE auth_users
        rows1 == IF created /\ e.trigger
                 THEN app_users \cup {[id |-> nextId + 2, user_id |-> nextId,
                                       company_id |-> NULL]}
                 ELSE app_users
        company_id == IF created /\ e.company = "row" THEN nextId + 1 ELSE NULL
        comps1 == IF company_id # NULL
                  THEN companies \cup {[id |-> company_id, name |-> company_name,
                                        settings |-> NoSettings]}
                  ELSE companies
        tried_profile == company_id # NULL /\ e.update = "ok"
        up == IF tried_profile
              THEN UpsertProfile(rows1, user_id, company_id, nextId + 2, e.insert)
              ELSE [rows |-> rows1, ok |-> FALSE,
                    calls |-> IF company_id # NULL THEN <<"app_users.update">> ELSE <<>>,
                    inserted |-> NULL]
        reached_otp == tried_profile /\ up.ok
        raised == ~reached_otp \/ SendOtpRaises(e.otp)
        calls1 == <<"create_user">>
                  \o (IF created THEN <<"companies.insert">> ELSE <<>>)
                  \o up.calls
                  \o (IF reached_otp THEN SendOtpCalls(e.otp) ELSE <<>>)
        cl == SignupCleanup(user_id, company_id, users1, comps1, up.rows, e)
        made == [user |-> user_id, company |-> company_id, profile |-> up.inserted]
    IN  IF raised
        THEN [auth_users |-> cl.users, companies |-> cl.companies, app_users |-> cl.rows,
              error |-> "Exception", calls |-> calls1 \o cl.calls, made |-> made,
              result |-> NoResult]
        ELSE [auth_users |-> users1, companies |-> comps1, app_users |-> up.rows,
              error |-> "none", calls |-> calls1, made |-> made,
              result |-> [id |-> user_id, email |-> email,
                          confirmed |-> \E u \in users1 : u.id = user_id /\ u.confirmed,
                          company_id |-> company_id]]

NoReplies == SignupPath("na", FALSE, "na", "na", "na", "na", "na", "na", FALSE)

SignupsLeft == nextId <= 3 * (MaxSignups - 1) + 1

signup_user(email, password, company_name) ==
    /\ SignupsLeft
    /\ UNCHANGED <<crudTables, emergency_vendors, onb, google, roleTables>>
    /\ IF ~validate_password_strength(password)
       THEN /\ UNCHANGED <<authTables, nextId>>
            /\ last' = [op |-> "signup_user", error |-> "ValueError", calls |-> <<>>,
                        email |-> email, password |-> password, replies |-> NoReplies,
                        made |-> [user |-> NULL, company |-> NULL, profile |-> NULL],
                        result |-> NoResult]
       ELSE \E e \in SignupReplies(email) :
              LET s == SignupRun(email, password, company_name, e) IN
              /\ auth_users' = s.auth_users
              /\ companies' = s.companies
              /\ app_users' = s.app_users
              /\ nextId' = IF e.create = "user" THEN nextId + 3 ELSE nextId
              /\ last' = [op |-> "signup_user", error |-> s.error, calls |-> s.calls,
                          email |-> email, password |-> password, replies |-> e,
                          made |-> s.made, result |-> s.result]

\* ------------------------------------------------- the /auth/signup route
\* signup_user takes email, password, first_name, last_name, company_name.
SignupUserParameters == 5
\* The route calls signup_user(signup_data.email, signup_data.password).
SignupRouteArguments == 2

NoOutcome == [op |-> "none"]

\* Whether every store call of a signup answered with success.
AllCallsSucceed(e) ==
    /\ e.create \in {"user", "na"} /\ e.company \in {"row", "na"}
    /\ e.update \in {"ok", "na"} /\ e.insert \in {"row", "na"}
    /\ e.otp \in {"sent", "na"}

\* POST /auth/signup.  A call with too few positional arguments raises
\* TypeError before the callee's body runs; the route's `except Exception`
\* turns it into a 400.  (Were the call to return, the route reads user.id
\* of the returned dict, which raises AttributeError: a 400 again.)
signup(email, password, company_name) ==
    /\ UNCHANGED <<crudTables, emergency_vendors, onb, google, roleTables>>
    /\ IF SignupRouteArguments # SignupUserParameters
       THEN /\ UNCHANGED <<authTables, nextId>>
            /\ last' = [op |-> "POST /auth/signup", status |-> 400,
                        detail |-> "TypeError", email |-> email,
                        valid |-> validate_password_strength(password),
                        taken |-> EmailTaken(email),
                        replies |-> NoReplies, result |-> NoResult]
       ELSE /\ SignupsLeft
            /\ IF ~validate_password_strength(password)
               THEN /\ UNCHANGED <<authTables, nextId>>
                    /\ last' = [op |-> "POST /auth/signup", status |-> 422,
                                detail |-> "ValueError", email |-> email,
                                valid |-> FALSE, taken |-> EmailTaken(email),
                                replies |-> NoReplies, result |-> NoResult]
               ELSE \E e \in SignupReplies(email) :
                      LET s == SignupRun(email, password, company_name, e) IN
                      /\ auth_users' = s.auth_users
                      /\ companies' = s.companies
                      /\ app_users' = s.app_users
                      /\ nextId' = IF e.create = "user" THEN nextId + 3 ELSE nextId
                      /\ last' = [op |-> "POST /auth/signup", status |-> 400,
                                  detail |-> IF s.error = "none" THEN "AttributeError"
                                             ELSE s.error,
                                  email |-> email, valid |-> TRUE,
                                  taken |-> EmailTaken(email),
                                  replies |-> e, result |-> NoResult]

\* --------------------------------------------------------------- signin
\* app.core.security: the self-issued tokens.
create_access_token(sub, email) == [type |-> "access", sub |-> sub, email |-> email]
create_refresh_token(sub) == [type |-> "refresh", sub |-> sub]
NoToken == [type |-> "none", sub |-> NULL]

\* The probe, were it to look at properties only.
CompanyHasProperties(company_id) ==
    \E r \in properties : r.company_id = company_id

\* The probe of properties, technicians and emergency_vendors.
CompanyHasRecords(company_id) ==
    \/ \E r \in properties : r.company_id = company_id
    \/ \E r \in technicians : r.company_id = company_id
    \/ \E r \in emergency_vendors : r.company_id = company_id

\* The credential store's answer to sign_in_with_password: a session for the
\* identity whose email and password match, else none; or an error.
SignInReplies(email, password) ==
    {[kind |-> "session", user |-> u] :
        u \in {u \in auth_users : u.email = email /\ u.password = password}}
    \cup {[kind |-> k, user |-> [id |-> NULL, email |-> email,
                                 password |-> <<>>, confirmed |-> FALSE]] :
        k \in IF \E u \in auth_users : u.email = email /\ u.password = password
              THEN {"raise"} ELSE {"none", "raise"}}

NoSignin == [access_token |-> NoToken, refresh_token |-> NoToken, user_id |-> NULL,
             email |-> "", email_confirmed |-> FALSE, company_id |-> NULL,
             is_onboarded |-> FALSE]

\* Lines 216-220: what makes signin_user answer 401.
SigninRejectsUnconfirmed(reply) == reply.kind = "none" \/ ~reply.user.confirmed

SigninRejects(reply) == reply.kind = "none"

\* The company_id read from app_users (limit 1; None when the read fails).
SigninCompanyIds(user_id) ==
    LET rows == {r \in app_users : r.user_id = user_id}
    IN  {NULL} \cup {r.company_id : r \in rows}

signin_user(email, password) ==
    /\ UNCHANGED <<authTables, crudTables, emergency_vendors, nextId, onb, google, roleTables>>
    /\ \E reply \in SignInReplies(email, password) :
         IF reply.kind = "raise"
         THEN last' = [op |-> "signin_user", status |-> 400,
                       detail |-> "Error during signin", email |-> email,
                       reply |-> reply, result |-> NoSignin]
         ELSE IF SigninRejects(reply)
         THEN last' = [op |-> "signin_user", status |-> 401,
                       detail |-> "Invalid email or password", email |-> email,
                       reply |-> reply, result |-> NoSignin]
         ELSE \E company_id \in SigninCompanyIds(reply.user.id), probe_ok \in BOOLEAN :
                /\ (company_id = NULL /\ ~probe_ok) =>
                       ~\E r \in app_users : r.user_id = reply.user.id
                /\ last' = [op |-> "signin_user", status |-> 200, detail |-> "",
                            email |-> email, reply |-> reply,
                            result |->
                              [access_token |->
                                   create_access_token(reply.user.id, reply.user.email),
                               refresh_token |-> create_refresh_token(reply.user.id),
                               user_id |-> reply.user.id,
                               email |-> reply.user.email,
                               email_confirmed |-> reply.user.confirmed,
                               company_id |-> company_id,
                               is_onboarded |-> /\ company_id # NULL
                                                /\ probe_ok
                                                /\ CompanyHasRecords(company_id)]]

\* ----------------------------------------------------- email verification
\* verify_email_with_otp: the credential store checks the code; when it
\* answers with a user it has confirmed that identity.
verify_email_with_otp(email) ==
    /\ UNCHANGED <<companies, app_users, crudTables, emergency_vendors, nextId, onb, google, roleTables>>
    /\ \E reply \in {"user", "nouser", "raise"} :
         /\ reply = "user" => \E u \in auth_users : u.email = email /\ ~u.confirmed
         /\ auth_users' = IF reply = "user"
                          THEN {IF u.email = email THEN [u EXCEPT !.confirmed = TRUE]
                                ELSE u : u \in auth_users}
                          ELSE auth_users
         /\ last' = [op |-> "verify_email_with_otp",
                     status |-> IF reply = "user" THEN 200 ELSE 400,
                     detail |-> IF reply = "user" THEN ""
                                ELSE IF reply = "nouser" THEN "Invalid or expired code"
                                ELSE "Email verification failed",
                     email |-> email]

\* ------------------------------------------------ the account specification
InitEmpty ==
    /\ auth_users = {} /\ companies = {} /\ app_users = {}
    /\ properties = {} /\ property_units = {} /\ technicians = {}
    /\ work_orders = {} /\ emergency_vendors = {}
    /\ nextId = 1
    /\ onb = <<>>
    /\ last = NoOutcome
    /\ google = <<>>
    /\ owners = {}
    /\ subcontractors = {}

Init == InitEmpty

\* The passwords of the account flows: the shortest accepted one (all four
\* classes, 8 characters), and the same one character shorter.
AccountPasswords ==
    {ClassRuns(AllRequired) \o <<[c |-> "other", n |-> p]>> :
        p \in {MinPasswordLength - 5, MinPasswordLength - 4}}

Next ==
    \/ \E email \in Emails, password \in AccountPasswords, name \in CompanyNames :
         signup_user(email, password, name)
    \/ \E email \in Emails, password \in AccountPasswords, name \in CompanyNames :
         signup(email, password, name)
    \/ \E email \in Emails, password \in AccountPasswords : signin_user(email, password)
    \/ \E email \in Emails : verify_email_with_otp(email)

Spec == Init /\ [][Next]_vars

\* ------------------------------------------- the password specification
\* signup_user alone, over every password of Passwords.
NextPolicy ==
    \E email \in {"a@x.com"}, password \in Passwords, name \in CompanyNames :
        signup_user(email, password, name)

SpecPolicy == Init /\ [][NextPolicy]_vars

\* ------------------------------------------------------ tenant-scoped CRUD
\* The number of rows the CRUD handlers insert in a run.
MaxRows == 2

\* The users of the resource specification: the users of two companies, and
\* a user whose signup left a profile row without a company.
UserA == 1
CompanyA == 2
UserB == 4
CompanyB == 5
UserNone == 7
FirstRowId == 10

\* The rows company B has created before the run: a property, a unit of it, a
\* technician whose default property it is, and a work order on the three.
PropertyB == FirstRowId
UnitB == PropertyB + 1
TechnicianB == UnitB + 1
WorkOrderB == TechnicianB + 1
FirstFreeId == WorkOrderB + 1

\* The callers of the run: company A's user and the user without a company.
Callers == {UserA, UserNone}

CreateNames == {"n1"}
UpdateNames == {"n2"}

\* The ids first-time onboarding has used: those of the rows it inserted and,
\* for an admin it created, of the identity and its profile row.
OnboardingIds ==
    Cardinality(UNION {onb[r].inserted : r \in DOMAIN onb})
    + 2 * Cardinality({r \in DOMAIN onb : onb[r].admin_created})

\* The cap on the rows the handlers insert in a run: the id counter after a
\* request, less the ids onboarding has used.
RowsWithin(next) == next - OnboardingIds <= FirstFreeId + MaxRows

\* The ids a request may name where a row of `table` is expected: the id of
\* every row of the table, and an id that no row has. A caller without a
\* company is answered before any id is read, whatever it is.
IdArgs(u, table) ==
    IF \A r \in app_users : r.user_id = u => r.company_id = NULL THEN {nextId}
    ELSE Ids(table) \cup {nextId}

Resp(status, detail, rows) == [status |-> status, detail |-> detail, rows |-> rows]
Ok(status) == status < 300

\* What a response shows of a row.
Shown(table, rows) ==
    {[table |-> table, id |-> r.id, company_id |-> r.company_id] : r \in rows}

\* _get_app_user: the profile rows `limit(1)` may return.
get_app_user(user_id) == {r \in app_users : r.user_id = user_id}

\* The company a handler resolves for its caller: the company_id of a row
\* _get_app_user may return, or NULL (the handler answers 400).
CallerCompanies(user_id) ==
    IF get_app_user(user_id) = {} THEN {NULL}
    ELSE {r.company_id : r \in get_app_user(user_id)}

NoCompany == Resp(400, "User is not associated with a company.", {})

\* The ownership check before a mutation or a nested read:
\* select id ... eq(id) eq(company_id).
RowInCompanyIgnoresTenant(table, id, company_id) ==
    \E r \in table : r.id = id

RowInCompany(table, id, company_id) ==
    \E r \in table : r.id = id /\ r.company_id = company_id

\* update(...).eq("id", id).eq("company_id", company_id): the rows written.
Matched(table, id, company_id) ==
    {r \in table : r.id = id /\ r.company_id = company_id}

\* --- properties and units (routes_properties.py)
get_properties_resp(c) ==
    IF c = NULL THEN NoCompany
    ELSE Resp(200, "", Shown("properties", {r \in properties : r.company_id = c}))

create_property_resp(c, name) ==
    IF c = NULL THEN NoCompany
    ELSE Resp(201, "", {[table |-> "properties", id |-> nextId, company_id |-> c]})

update_property_resp(c, id, name) ==
    IF c = NULL THEN NoCompany
    ELSE IF ~RowInCompany(properties, id, c) THEN Resp(404, "Property not found", {})
    ELSE IF name = Unset THEN Resp(400, "No fields to update", {})
    ELSE IF Matched(properties, id, c) = {}
    THEN Resp(500, "Failed to update property", {})
    ELSE Resp(200, "", Shown("properties", Matched(properties, id, c)))

delete_property_resp(c, id) ==
    IF c = NULL THEN NoCompany
    ELSE IF ~RowInCompany(properties, id, c) THEN Resp(404, "Property not found", {})
    ELSE Resp(204, "", {})

get_units_resp(c, property_id) ==
    IF c = NULL THEN NoCompany
    ELSE IF ~RowInCompany(properties, property_id, c)
    THEN Resp(404, "Property not found", {})
    ELSE Resp(200, "", Shown("property_units",
              {r \in property_units : r.property_id = property_id /\ r.company_id = c}))

create_unit_resp(c, property_id, label) ==
    IF c = NULL THEN NoCompany
    ELSE IF ~RowInCompany(properties, property_id, c)
    THEN Resp(404, "Property not found", {})
    ELSE Resp(201, "", {[table |-> "property_units", id |-> nextId, company_id |-> c]})

update_unit_resp(c, id, label) ==
    IF c = NULL THEN NoCompany
    ELSE IF ~RowInCompany(property_units, id, c) THEN Resp(404, "Unit not found", {})
    ELSE IF label = Unset THEN Resp(400, "No fields to update", {})
    ELSE IF Matched(property_units, id, c) = {}
    THEN Resp(500, "Failed to update unit", {})
    ELSE Resp(200, "", Shown("property_units", Matched(property_units, id, c)))

delete_unit_forbids(c, id) ==
    IF c = NULL THEN NoCompany
    ELSE IF \E r \in property_units : r.id = id /\ r.company_id # c
    THEN Resp(403, "Forbidden", {})
    ELSE IF ~RowInCompany(property_units, id, c) THEN Resp(404, "Unit not found", {})
    ELSE Resp(204, "", {})

delete_unit_resp(c, id) ==
    IF c = NULL THEN NoCompany
    ELSE IF ~RowInCompany(property_units, id, c) THEN Resp(404, "Unit not found", {})
    ELSE Resp(204, "", {})

\* --- technicians (routes_technicians.py)
\* The property whose name a technician response carries: looked up by id
\* alone.
NamedProperty(property_id) ==
    Shown("properties", {r \in properties : r.id = property_id})

get_technicians_resp(c) ==
    IF c = NULL THEN NoCompany
    ELSE LET data == {r \in technicians : r.company_id = c}
         IN  Resp(200, "", Shown("technicians", data)
                 \cup UNION {NamedProperty(r.default_property_id) : r \in data})

create_technician_resp(c, default_property_id, first_name) ==
    IF c = NULL THEN NoCompany
    ELSE IF default_property_id # NULL /\ ~RowInCompany(properties, default_property_id, c)
    THEN Resp(400, "Property not found or does not belong to your company", {})
    ELSE Resp(201, "", {[table |-> "technicians", id |-> nextId, company_id |-> c]}
                       \cup NamedProperty(default_property_id))

TechnicianUpdateWritesEveryField(row, default_property_id, first_name) ==
    [row EXCEPT !.default_property_id = default_property_id, !.first_name = first_name]

\* The update dict of update_technician: the fields given.
TechnicianUpdate(row, default_property_id, first_name) ==
    [row EXCEPT
        !.default_property_id =
            IF default_property_id = NULL THEN @ ELSE default_property_id,
        !.first_name = IF first_name = Unset THEN @ ELSE first_name]

update_technician_resp(c, id, default_property_id, first_name) ==
    IF c = NULL THEN NoCompany
    ELSE IF ~RowInCompany(technicians, id, c) THEN Resp(404, "Technician not found", {})
    ELSE IF default_property_id # NULL /\ ~RowInCompany(properties, default_property_id, c)
    THEN Resp(400, "Property not found or does not belong to your company", {})
    ELSE IF default_property_id = NULL /\ first_name = Unset
    THEN Resp(400, "No fields to update", {})
    ELSE IF Matched(technicians, id, c) = {}
    THEN Resp(500, "Failed to update technician", {})
    ELSE Resp(200, "", Shown("technicians", Matched(technicians, id, c))
              \cup UNION {NamedProperty(
                      TechnicianUpdate(r, default_property_id, first_name).default_property_id) :
                          r \in Matched(technicians, id, c)})

delete_technician_resp(c, id) ==
    IF c = NULL THEN NoCompany
    ELSE IF ~RowInCompany(technicians, id, c) THEN Resp(404, "Technician not found", {})
    ELSE Resp(204, "", {})

\* --- work orders (work_order_service.py)
\* An assigned_technician_id of "" : falsy, and not None.
EmptyId == NULL - 1

NoLabel == Unset
WorkOrderStatuses == {"open", "done"}
UpdateStatuses == {"done"}

\* _upsert_unit's unit_id branch: the unit is read by id alone and compared
\* afterwards.
UnitOfProperty(unit_id, company_id, property_id) ==
    \E r \in property_units :
        r.id = unit_id /\ r.company_id = company_id /\ r.property_id = property_id

find_unit_by_label_misses(property_id, label) == {}

\* _find_unit_by_label: the rows `limit(1)` may return.
find_unit_by_label(property_id, label) ==
    {r \in property_units : r.property_id = property_id /\ r.label = label}

\* Whether _upsert_unit inserts a unit for this request.
UpsertInserts(c, property_id, unit_id, unit_label) ==
    /\ c # NULL
    /\ RowInCompany(properties, property_id, c)
    /\ unit_id = NULL
    /\ unit_label # NoLabel
    /\ find_unit_by_label(property_id, unit_label) = {}

\* The unit ids _upsert_unit may return.
UpsertUnitIds(c, property_id, unit_id, unit_label) ==
    IF unit_id # NULL THEN {unit_id}
    ELSE IF unit_label = NoLabel THEN {NULL}
    ELSE IF find_unit_by_label(property_id, unit_label) = {} THEN {nextId}
    ELSE Ids(find_unit_by_label(property_id, unit_label))

WorkOrderId(c, property_id, unit_id, unit_label) ==
    IF UpsertInserts(c, property_id, unit_id, unit_label) THEN nextId + 1 ELSE nextId

get_work_order_options_resp(c) ==
    IF c = NULL THEN NoCompany
    ELSE LET data == {r \in properties : r.company_id = c}
         IN  Resp(200, "", Shown("properties", data)
                 \cup Shown("property_units",
                            {r \in property_units : r.property_id \in Ids(data)}))

create_work_order_resp(c, property_id, unit_id, unit_label, technician_id) ==
    IF c = NULL THEN NoCompany
    ELSE IF ~RowInCompany(properties, property_id, c)
    THEN Resp(404, "Property not found for this company.", {})
    ELSE IF unit_id # NULL /\ ~UnitOfProperty(unit_id, c, property_id)
    THEN Resp(422, "Unit does not belong to the selected property.", {})
    ELSE IF technician_id # NULL /\ ~RowInCompany(technicians, technician_id, c)
    THEN Resp(422, "Technician does not belong to this company.", {})
    ELSE Resp(201, "", {[table |-> "work_orders",
                         id |-> WorkOrderId(c, property_id, unit_id, unit_label),
                         company_id |-> c]}
                       \cup Shown("properties", Matched(properties, property_id, c)))

get_work_orders_resp(c, status_filter) ==
    IF c = NULL THEN NoCompany
    ELSE LET data == {r \in work_orders :
                         /\ r.company_id = c
                         /\ status_filter = Unset \/ r.status = status_filter}
         IN  Resp(200, "", Shown("work_orders", data)
                 \cup UNION {NamedProperty(r.property_id) : r \in data})

update_work_order_resp(c, id, technician_id, status) ==
    IF c = NULL THEN NoCompany
    ELSE IF ~RowInCompany(work_orders, id, c) THEN Resp(404, "Work order not found", {})
    ELSE IF technician_id \notin {NULL, EmptyId}
            /\ ~RowInCompany(technicians, technician_id, c)
    THEN Resp(422, "Technician does not belong to this company.", {})
    ELSE IF technician_id = NULL /\ status = Unset
    THEN Resp(400, "No fields to update", {})
    ELSE IF Matched(work_orders, id, c) = {}
    THEN Resp(500, "Failed to update work order", {})
    ELSE Resp(200, "", Shown("work_orders", Matched(work_orders, id, c))
              \cup UNION {NamedProperty(r.property_id) : r \in Matched(work_orders, id, c)})

\* --- the handlers as steps
\* Whether the id a request names is a row of another company.
Foreign(table, id, c) == \E r \in table : r.id = id /\ r.company_id # c

Served(op, c, foreign, resp) ==
    [op |-> op, company |-> c, foreign |-> foreign, status |-> resp.status]

crudRest == <<auth_users, companies, app_users, emergency_vendors, onb, google, roleTables>>

get_properties(u) ==
    \E c \in CallerCompanies(u) :
        /\ last' = Served("get_properties", c, FALSE, get_properties_resp(c))
        /\ UNCHANGED <<crudRest, crudTables, nextId>>

create_property(u, name) ==
    \E c \in CallerCompanies(u) :
        LET r == create_property_resp(c, name) IN
        /\ properties' = IF Ok(r.status)
                         THEN properties \cup {[id |-> nextId, company_id |-> c, name |-> name]}
                         ELSE properties
        /\ nextId' = IF Ok(r.status) THEN nextId + 1 ELSE nextId
        /\ RowsWithin(nextId')
        /\ last' = Served("create_property", c, FALSE, r)
        /\ UNCHANGED <<crudRest, property_units, technicians, work_orders>>

update_property(u, id, name) ==
    \E c \in CallerCompanies(u) :
        LET r == update_property_resp(c, id, name)
            New(row) == [row EXCEPT !.name = name] IN
        /\ properties' =
               IF Ok(r.status)
               THEN {IF x \in Matched(properties, id, c) THEN New(x) ELSE x : x \in properties}
               ELSE properties
        /\ last' = Served("update_property", c, Foreign(properties, id, c), r)
        /\ UNCHANGED <<crudRest, property_units, technicians, work_orders, nextId>>

delete_property(u, id) ==
    \E c \in CallerCompanies(u) :
        LET r == delete_property_resp(c, id) IN
        /\ properties' = IF Ok(r.status) THEN properties \ Matched(properties, id, c)
                         ELSE properties
        /\ property_units' = IF Ok(r.status)
                             THEN {x \in property_units :
                                      x.property_id \notin Ids(Matched(properties, id, c))}
                             ELSE property_units
        /\ last' = Served("delete_property", c, Foreign(properties, id, c), r)
        /\ UNCHANGED <<crudRest, technicians, work_orders, nextId>>

get_units(u, property_id) ==
    \E c \in CallerCompanies(u) :
        /\ last' = Served("get_units", c, Foreign(properties, property_id, c),
                          get_units_resp(c, property_id))
        /\ UNCHANGED <<crudRest, crudTables, nextId>>

create_unit(u, property_id, label) ==
    \E c \in CallerCompanies(u) :
        LET r == create_unit_resp(c, property_id, label) IN
        /\ property_units' =
               IF Ok(r.status)
               THEN property_units \cup {[id |-> nextId, company_id |-> c,
                                          property_id |-> property_id, label |-> label]}
               ELSE property_units
        /\ nextId' = IF Ok(r.status) THEN nextId + 1 ELSE nextId
        /\ RowsWithin(nextId')
        /\ last' = Served("create_unit", c, Foreign(properties, property_id, c), r)
        /\ UNCHANGED <<crudRest, properties, technicians, work_orders>>

update_unit(u, id, label) ==
    \E c \in CallerCompanies(u) :
        LET r == update_unit_resp(c, id, label)
            New(row) == [row EXCEPT !.label = label] IN
        /\ property_units' =
               IF Ok(r.status)
               THEN {IF x \in Matched(property_units, id, c) THEN New(x) ELSE x : x \in property_units}
               ELSE property_units
        /\ last' = Served("update_unit", c, Foreign(property_units, id, c), r)
        /\ UNCHANGED <<crudRest, properties, technicians, work_orders, nextId>>

delete_unit(u, id) ==
    \E c \in CallerCompanies(u) :
        LET r == delete_unit_resp(c, id) IN
        /\ property_units' = IF Ok(r.status) THEN property_units \ Matched(property_units, id, c)
                             ELSE property_units
        /\ last' = Served("delete_unit", c, Foreign(property_units, id, c), r)
        /\ UNCHANGED <<crudRest, properties, technicians, work_orders, nextId>>


get_technicians(u) ==
    \E c \in CallerCompanies(u) :
        /\ last' = Served("get_technicians", c, FALSE, get_technicians_resp(c))
        /\ UNCHANGED <<crudRest, crudTables, nextId>>

create_technician(u, default_property_id, first_name) ==
    \E c \in CallerCompanies(u) :
        LET r == create_technician_resp(c, default_property_id, first_name) IN
        /\ technicians' =
               IF Ok(r.status)
               THEN technicians \cup {[id |-> nextId, company_id |-> c,
                                       default_property_id |-> default_property_id,
                                       first_name |-> first_name]}
               ELSE technicians
        /\ nextId' = IF Ok(r.status) THEN nextId + 1 ELSE nextId
        /\ RowsWithin(nextId')
        /\ last' = Served("create_technician", c,
                          Foreign(properties, default_property_id, c), r)
        /\ UNCHANGED <<crudRest, properties, property_units, work_orders>>

update_technician(u, id, default_property_id, first_name) ==
    \E c \in CallerCompanies(u) :
        LET r == update_technician_resp(c, id, default_property_id, first_name)
            New(row) == TechnicianUpdate(row, default_property_id, first_name) IN
        /\ technicians' =
               IF Ok(r.status)
               THEN {IF x \in Matched(technicians, id, c) THEN New(x) ELSE x : x \in technicians}
               ELSE technicians
        /\ last' = Served("update_technician", c,
                          \/ Foreign(technicians, id, c)
                          \/ Foreign(properties, default_property_id, c), r)
        /\ UNCHANGED <<crudRest, properties, property_units, work_orders, nextId>>

delete_technician(u, id) ==
    \E c \in CallerCompanies(u) :
        LET r == delete_technician_resp(c, id) IN
        /\ technicians' = IF Ok(r.status) THEN technicians \ Matched(technicians, id, c)
                          ELSE technicians
        /\ last' = Served("delete_technician", c, Foreign(technicians, id, c), r)
        /\ UNCHANGED <<crudRest, properties, property_units, work_orders, nextId>>

get_work_order_options(u) ==
    \E c \in CallerCompanies(u) :
        /\ last' = Served("get_work_order_options", c, FALSE, get_work_order_options_resp(c))
        /\ UNCHANGED <<crudRest, crudTables, nextId>>

create_work_order(u, property_id, unit_id, unit_label, technician_id) ==
    \E c \in CallerCompanies(u) :
        LET r == create_work_order_resp(c, property_id, unit_id, unit_label, technician_id)
            inserts == UpsertInserts(c, property_id, unit_id, unit_label)
            wo == WorkOrderId(c, property_id, unit_id, unit_label) IN
        /\ property_units' =
               IF inserts
               THEN property_units \cup {[id |-> nextId, company_id |-> c,
                                          property_id |-> property_id, label |-> unit_label]}
               ELSE property_units
        /\ \E unit \in UpsertUnitIds(c, property_id, unit_id, unit_label) :
               work_orders' =
                   IF Ok(r.status)
                   THEN work_orders \cup {[id |-> wo, company_id |-> c,
                                           property_id |-> property_id, unit_id |-> unit,
                                           assigned_technician_id |-> technician_id,
                                           status |-> "open",
                       priority |-> "routine"]}
                   ELSE work_orders
        /\ nextId' = IF Ok(r.status) THEN wo + 1 ELSE wo
        /\ RowsWithin(nextId')
        /\ last' = Served("create_work_order", c,
                          \/ Foreign(properties, property_id, c)
                          \/ Foreign(property_units, unit_id, c)
                          \/ Foreign(technicians, technician_id, c), r)
        /\ UNCHANGED <<crudRest, properties, technicians>>

get_work_orders(u, status_filter) ==
    \E c \in CallerCompanies(u) :
        /\ last' = Served("get_work_orders", c, FALSE, get_work_orders_resp(c, status_filter))
        /\ UNCHANGED <<crudRest, crudTables, nextId>>

update_work_order(u, id, technician_id, status) ==
    \E c \in CallerCompanies(u) :
        LET r == update_work_order_resp(c, id, technician_id, status)
            New(row) ==
                [row EXCEPT
                    !.assigned_technician_id =
                        IF technician_id = NULL THEN @
                        ELSE IF technician_id = EmptyId THEN NULL ELSE technician_id,
                    !.status = IF status = Unset THEN @ ELSE status] IN
        /\ work_orders' =
               IF Ok(r.status)
               THEN {IF x \in Matched(work_orders, id, c) THEN New(x) ELSE x : x \in work_orders}
               ELSE work_orders
        /\ last' = Served("update_work_order", c,
                          \/ Foreign(work_orders, id, c)
                          \/ Foreign(technicians, technician_id, c), r)
        /\ UNCHANGED <<crudRest, properties, property_units, technicians, nextId>>

\* ------------------------------------------------ the resource specification
\* The state after three signups and their email verifications: two companies
\* with one confirmed user each, and a confirmed identity whose signup failed
\* at the company insert and whose deletion failed, leaving the trigger's
\* profile row without a company; company B's user has created one row in
\* each resource table.
ValidPassword ==
    ClassRuns(AllRequired) \o <<[c |-> "other", n |-> MinPasswordLength - 4]>>

InitTenants ==
    /\ auth_users =
           {[id |-> UserA, email |-> "a@x.com", password |-> ValidPassword, confirmed |-> TRUE],
            [id |-> UserB, email |-> "b@x.com", password |-> ValidPassword, confirmed |-> TRUE],
            [id |-> UserNone, email |-> "c@x.com", password |-> ValidPassword,
             confirmed |-> TRUE]}
    /\ companies = {[id |-> CompanyA, name |-> "Acme", settings |-> NoSettings],
                    [id |-> CompanyB, name |-> "Acme", settings |-> NoSettings]}
    /\ app_users = {[id |-> UserA + 2, user_id |-> UserA, company_id |-> CompanyA],
                    [id |-> UserB + 2, user_id |-> UserB, company_id |-> CompanyB],
                    [id |-> UserNone + 2, user_id |-> UserNone, company_id |-> NULL]}
    /\ properties = {[id |-> PropertyB, company_id |-> CompanyB, name |-> "n1"]}
    /\ property_units = {[id |-> UnitB, company_id |-> CompanyB,
                          property_id |-> PropertyB, label |-> "n1"]}
    /\ technicians = {[id |-> TechnicianB, company_id |-> CompanyB,
                       default_property_id |-> PropertyB, first_name |-> "n1"]}
    /\ work_orders = {[id |-> WorkOrderB, company_id |-> CompanyB,
                       property_id |-> PropertyB, unit_id |-> UnitB,
                       assigned_technician_id |-> TechnicianB, status |-> "open",
                       priority |-> "routine"]}
    /\ emergency_vendors = {}
    /\ nextId = FirstFreeId
    /\ last = NoOutcome

InitCrud ==
    /\ InitTenants
    /\ onb = <<>>
    /\ google = <<>>
    /\ owners = {}
    /\ subcontractors = {}

\* The values of an argument the handler reads only after an earlier check:
\* all of them when the check passes, one (the request is answered before
\* the argument is read) when it does not.
LaterArgs(u, table, id, values) ==
    IF \E c \in CallerCompanies(u) : RowInCompany(table, id, c) THEN values
    ELSE {CHOOSE v \in values : TRUE}

\* How a work order request names its unit: not at all, by id, or by label.
UnitArgs(u) ==
    {[unit_id |-> id, unit_label |-> NoLabel] : id \in IdArgs(u, property_units) \cup {NULL}}
    \cup {[unit_id |-> NULL, unit_label |-> l] : l \in CreateNames}

NextCrud ==
    \/ \E u \in Callers : get_properties(u)
    \/ \E u \in Callers, name \in CreateNames : create_property(u, name)
    \/ \E u \in Callers : \E id \in IdArgs(u, properties), name \in UpdateNames \cup {Unset} :
         update_property(u, id, name)
    \/ \E u \in Callers : \E id \in IdArgs(u, properties) : delete_property(u, id)
    \/ \E u \in Callers : \E id \in IdArgs(u, properties) : get_units(u, id)
    \/ \E u \in Callers : \E id \in IdArgs(u, properties), label \in CreateNames :
         create_unit(u, id, label)
    \/ \E u \in Callers : \E id \in IdArgs(u, property_units), label \in UpdateNames \cup {Unset} :
         update_unit(u, id, label)
    \/ \E u \in Callers : \E id \in IdArgs(u, property_units) : delete_unit(u, id)
    \/ \E u \in Callers : get_technicians(u)
    \/ \E u \in Callers : \E p \in IdArgs(u, properties) \cup {NULL}, name \in CreateNames :
         create_technician(u, p, name)
    \/ \E u \in Callers :
         \E id \in IdArgs(u, technicians) :
             \E p \in LaterArgs(u, technicians, id, IdArgs(u, properties) \cup {NULL}),
                name \in LaterArgs(u, technicians, id, UpdateNames \cup {Unset}) :
                 update_technician(u, id, p, name)
    \/ \E u \in Callers : \E id \in IdArgs(u, technicians) : delete_technician(u, id)
    \/ \E u \in Callers : get_work_order_options(u)
    \/ \E u \in Callers :
         \E p \in IdArgs(u, properties) :
             \E unit \in LaterArgs(u, properties, p, UnitArgs(u)),
                t \in LaterArgs(u, properties, p, IdArgs(u, technicians) \cup {NULL}) :
                 create_work_order(u, p, unit.unit_id, unit.unit_label, t)
    \/ \E u \in Callers, status \in WorkOrderStatuses \cup {Unset} : get_work_orders(u, status)
    \/ \E u \in Callers :
         \E id \in IdArgs(u, work_orders) :
             \E t \in LaterArgs(u, work_orders, id, IdArgs(u, technicians) \cup {NULL, EmptyId}),
                status \in LaterArgs(u, work_orders, id, UpdateStatuses \cup {Unset}) :
                 update_work_order(u, id, t, status)

SpecCrud == InitCrud /\ [][NextCrud]_vars

\* ---------------------------------------------------- the update specification
\* The state after company A's user has created a property, a unit of it, a
\* technician whose default property it is and an unassigned work order on
\* the two, beside company B's rows.
InitUpdates ==
    /\ auth_users =
           {[id |-> UserA, email |-> "a@x.com", password |-> ValidPassword, confirmed |-> TRUE],
            [id |-> UserB, email |-> "b@x.com", password |-> ValidPassword, confirmed |-> TRUE],
            [id |-> UserNone, email |-> "c@x.com", password |-> ValidPassword,
             confirmed |-> TRUE]}
    /\ companies = {[id |-> CompanyA, name |-> "Acme", settings |-> NoSettings],
                    [id |-> CompanyB, name |-> "Acme", settings |-> NoSettings]}
    /\ app_users = {[id |-> UserA + 2, user_id |-> UserA, company_id |-> CompanyA],
                    [id |-> UserB + 2, user_id |-> UserB, company_id |-> CompanyB],
                    [id |-> UserNone + 2, user_id |-> UserNone, company_id |-> NULL]}
    /\ properties = {[id |-> PropertyB, company_id |-> CompanyB, name |-> "n1"],
                     [id |-> FirstFreeId, company_id |-> CompanyA, name |-> "n1"]}
    /\ property_units = {[id |-> UnitB, company_id |-> CompanyB,
                          property_id |-> PropertyB, label |-> "n1"],
                         [id |-> FirstFreeId + 1, company_id |-> CompanyA,
                          property_id |-> FirstFreeId, label |-> "n1"]}
    /\ technicians = {[id |-> TechnicianB, company_id |-> CompanyB,
                       default_property_id |-> PropertyB, first_name |-> "n1"],
                      [id |-> FirstFreeId + 2, company_id |-> CompanyA,
                       default_property_id |-> FirstFreeId, first_name |-> "n1"]}
    /\ work_orders = {[id |-> WorkOrderB, company_id |-> CompanyB,
                       property_id |-> PropertyB, unit_id |-> UnitB,
                       assigned_technician_id |-> TechnicianB, status |-> "open",
                       priority |-> "routine"],
                      [id |-> FirstFreeId + 3, company_id |-> CompanyA,
                       property_id |-> FirstFreeId, unit_id |-> FirstFreeId + 1,
                       assigned_technician_id |-> NULL, status |-> "open",
                       priority |-> "routine"]}
    /\ emergency_vendors = {}
    /\ nextId = FirstFreeId + 4
    /\ onb = <<>>
    /\ last = NoOutcome
    /\ google = <<>>
    /\ owners = {}
    /\ subcontractors = {}

\* The four updates, with every id of the table and an id no row has, and
\* every choice of fields.
NextUpdates ==
    \/ \E u \in Callers, id \in Ids(properties) \cup {nextId}, name \in UpdateNames \cup {Unset} :
         update_property(u, id, name)
    \/ \E u \in Callers, id \in Ids(property_units) \cup {nextId},
          label \in UpdateNames \cup {Unset} :
         update_unit(u, id, label)
    \/ \E u \in Callers, id \in Ids(technicians) \cup {nextId},
          p \in Ids(properties) \cup {NULL, nextId}, name \in UpdateNames \cup {Unset} :
         update_technician(u, id, p, name)
    \/ \E u \in Callers, id \in Ids(work_orders) \cup {nextId},
          t \in Ids(technicians) \cup {NULL, EmptyId, nextId},
          status \in WorkOrderStatuses \cup {Unset} :
         update_work_order(u, id, t, status)

SpecUpdates == InitUpdates /\ [][NextUpdates]_vars

\* ------------------------------------------------------ the unit specification
\* The number of rows the unit and work-order handlers insert in a run on one
\* property.
MaxUnitRows == 3

\* The property company A's user has created before the run.
PropertyA == UserA + 3

UnitLabels == {"n1", "n2"}

\* The state after company A's signup, verification and create_property.
InitUnits ==
    /\ auth_users =
           {[id |-> UserA, email |-> "a@x.com", password |-> ValidPassword, confirmed |-> TRUE]}
    /\ companies = {[id |-> CompanyA, name |-> "Acme", settings |-> NoSettings]}
    /\ app_users = {[id |-> UserA + 2, user_id |-> UserA, company_id |-> CompanyA]}
    /\ properties = {[id |-> PropertyA, company_id |-> CompanyA, name |-> "n1"]}
    /\ property_units = {}
    /\ technicians = {}
    /\ work_orders = {}
    /\ emergency_vendors = {}
    /\ nextId = PropertyA + 1
    /\ onb = <<>>
    /\ last = NoOutcome
    /\ google = <<>>
    /\ owners = {}
    /\ subcontractors = {}

UnitRowsWithin(next) == next <= PropertyA + 1 + MaxUnitRows

\* POST /units, PUT /units/{id} and create_work_order on the property, the
\* unit named by label, by id or not at all.
NextUnits ==
    \/ \E label \in UnitLabels :
         create_unit(UserA, PropertyA, label) /\ UnitRowsWithin(nextId')
    \/ \E id \in Ids(property_units), label \in UnitLabels : update_unit(UserA, id, label)
    \/ \E label \in UnitLabels :
         create_work_order(UserA, PropertyA, NULL, label, NULL) /\ UnitRowsWithin(nextId')
    \/ \E id \in Ids(property_units) \cup {NULL} :
         create_work_order(UserA, PropertyA, id, NoLabel, NULL) /\ UnitRowsWithin(nextId')

SpecUnits == InitUnits /\ [][NextUnits]_vars

\* ------------------------------------------------------ first-time onboarding
\* The number of first-time onboarding requests of a run.
MaxRequests == 2

Requests == 1..MaxRequests

\* str.strip and str.lower on the texts the requests of the model carry.
strip(text) ==
    CASE text = " P1 " -> "P1"
      [] text = " A@x.com " -> "A@x.com"
      [] text = " Pacific (LA) " -> "Pacific (LA)"
      [] text = " America/Denver " -> "America/Denver"
      [] text = "  " -> ""
      [] OTHER -> text

lower(text) ==
    CASE text = "P1" -> "p1"
      [] text = " P1 " -> " p1 "
      [] text = "A@x.com" -> "a@x.com"
      [] text = " A@x.com " -> " a@x.com "
      [] text = "All" -> "all"
      [] OTHER -> text

\* Lines 24-30.
TIMEZONE_ALIASES ==
    [alias \in {"Eastern (Detroit)", "Central (Chicago)", "Mountain (Denver)", "Pacific (LA)"} |->
        CASE alias = "Eastern (Detroit)" -> "America/Detroit"
          [] alias = "Central (Chicago)" -> "America/Chicago"
          [] alias = "Mountain (Denver)" -> "America/Denver"
          [] alias = "Pacific (LA)" -> "America/Los_Angeles"]

REVERSE_TIMEZONE_ALIASES == {TIMEZONE_ALIASES[a] : a \in DOMAIN TIMEZONE_ALIASES}

\* _normalize_timezone, lines 72-83: the fallback for no value and for the
\* empty text; for any other text, stripped: the canonical name of an alias,
\* a canonical name as it is; anything else raises (422).
normalize_timezone_aliases_only(value, fallback) ==
    IF value = Unset \/ value = "" THEN [ok |-> TRUE, timezone |-> fallback]
    ELSE IF strip(value) \in DOMAIN TIMEZONE_ALIASES
    THEN [ok |-> TRUE, timezone |-> TIMEZONE_ALIASES[strip(value)]]
    ELSE [ok |-> FALSE, timezone |-> Unset]

normalize_timezone(value, fallback) ==
    IF value = Unset \/ value = "" THEN [ok |-> TRUE, timezone |-> fallback]
    ELSE IF strip(value) \in DOMAIN TIMEZONE_ALIASES
    THEN [ok |-> TRUE, timezone |-> TIMEZONE_ALIASES[strip(value)]]
    ELSE IF strip(value) \in REVERSE_TIMEZONE_ALIASES
    THEN [ok |-> TRUE, timezone |-> strip(value)]
    ELSE [ok |-> FALSE, timezone |-> Unset]

\* A time text: its colon-separated fields, each the number of digits written
\* and the number they spell; "09:00" is <<[w |-> 2, v |-> 9], [w |-> 2, v |-> 0]>>.
TimeField(w, v) == [w |-> w, v |-> v]
HHMM(h, m) == <<TimeField(2, h), TimeField(2, m)>>
HHMMSS(h, m, sec) == <<TimeField(2, h), TimeField(2, m), TimeField(2, sec)>>

\* datetime.strptime(value, "%H:%M") for fields = 2 and "%H:%M:%S" for
\* fields = 3: whether it parses. Each directive takes one or two digits; the
\* hour is at most 23, the minute and the second at most 59.
strptime(value, fields) ==
    /\ Len(value) = fields
    /\ \A i \in DOMAIN value :
           /\ value[i].w \in 1..2
           /\ value[i].v <= (IF i = 1 THEN 23 ELSE 59)

\* _normalize_time: strftime("%H:%M:%S") of the first format that parses;
\* raises (422) when neither does.
normalize_time(value) ==
    IF strptime(value, 2) THEN [ok |-> TRUE, text |-> HHMMSS(value[1].v, value[2].v, 0)]
    ELSE IF strptime(value, 3)
    THEN [ok |-> TRUE, text |-> HHMMSS(value[1].v, value[2].v, value[3].v)]
    ELSE [ok |-> FALSE, text |-> <<>>]

format_time_keeps_seconds(value) ==
    IF value = <<>> THEN HHMM(0, 0) ELSE value

\* _format_time_for_response: "00:00" for no value, strftime("%H:%M") of a
\* value that parses as %H:%M:%S or %H:%M, any other value as it is.
format_time_for_response(value) ==
    IF value = <<>> THEN HHMM(0, 0)
    ELSE IF strptime(value, 3) \/ strptime(value, 2) THEN HHMM(value[1].v, value[2].v)
    ELSE value

\* HourString: the pattern ^\d{2}:\d{2}$.
HourString(value) == Len(value) = 2 /\ \A i \in DOMAIN value : value[i].w = 2

\* OnboardingRequest.validate_work_hours.
validate_work_hours(value) == strptime(value, 2)

\* Whether OnboardingRequest accepts a body: its work hours match HourString
\* and pass the validator.
OnboardingRequestAccepts(body) ==
    /\ HourString(body.work_hours_start) /\ validate_work_hours(body.work_hours_start)
    /\ HourString(body.work_hours_end) /\ validate_work_hours(body.work_hours_end)

\* A technician's default_property in the payload: none (or a placeholder), a
\* property name of the same request, or a property id.
NoRef == [kind |-> "none", name |-> "", id |-> NULL]
NameRef(name) == [kind |-> "name", name |-> name, id |-> NULL]
UuidRef(id) == [kind |-> "uuid", name |-> "", id |-> id]

NoAdmin == ""
AdminEmail == "admin@x.com"

OnbPayloads ==
    [timezone : {"Eastern (Detroit)", "Mars/Olympus"},
     work_hours_start : {HHMM(9, 0)},
     work_hours_end : {HHMM(17, 30)},
     admin : {NoAdmin, "a@x.com", "b@x.com", AdminEmail},
     properties : {<<>>, <<"p1">>},
     technicians : {<<>>, <<NoRef>>, <<NameRef("p1")>>, <<UuidRef(PropertyB)>>},
     emergency_vendors : {<<>>, <<"v1">>}]

NoPayload ==
    [timezone |-> Unset, work_hours_start |-> <<>>, work_hours_end |-> <<>>,
     admin |-> NoAdmin,
     properties |-> <<>>, technicians |-> <<>>, emergency_vendors |-> <<>>]

\* A request slot: where the handler is, what it has read and written so far,
\* and its response once answered. `after` records that the request arrived
\* after another request of the same company had been answered with success;
\* `overlapped` the requests that were in flight when it arrived.
IdleRequest ==
    [pc |-> "idle", user |-> NULL, company_id |-> NULL, payload |-> NoPayload,
     timezone |-> Unset, names |-> {}, inserted |-> {}, admin_created |-> FALSE,
     status |-> NULL, detail |-> "", after |-> FALSE, overlapped |-> {}]

InFlight(r) == onb[r].pc \notin {"idle", "done"}

Answered(req, status, detail) ==
    [req EXCEPT !.pc = "done", !.status = status, !.detail = detail, !.payload = NoPayload]

EmailOf(user_id) == {u.email : u \in {x \in auth_users : x.id = user_id}}

\* Lines 256-286: the preconditions and the normalisation of the payload, all
\* before the first write.
onb_start(r, u, payload) ==
    /\ onb[r].pc = "idle"
    /\ \A q \in Requests : q < r => onb[q].pc # "idle"
    /\ LET req == [onb[r] EXCEPT
                      !.user = u,
                      !.payload = payload,
                      !.overlapped = {q \in Requests : InFlight(q)}]
       IN  IF get_app_user(u) = {}
           THEN onb' = [onb EXCEPT ![r] = Answered(req, 400,
                            "User profile not found. Complete signup before onboarding.")]
           ELSE \E au \in get_app_user(u) :
               LET c == au.company_id
                   company == {x \in companies : x.id = c}
                   tz == normalize_timezone(payload.timezone,
                             (CHOOSE x \in company : TRUE).settings.timezone)
                   started == [req EXCEPT
                                  !.company_id = c,
                                  !.after = \E q \in Requests :
                                               /\ onb[q].pc = "done"
                                               /\ onb[q].status = 200
                                               /\ onb[q].company_id = c]
               IN  onb' = [onb EXCEPT ![r] =
                       IF c = NULL
                       THEN Answered(req, 400, "Company not provisioned. Complete signup first.")
                       ELSE IF company = {}
                       THEN Answered(started, 400, "Company record missing. Contact support.")
                       ELSE IF CompanyHasRecords(c)
                       THEN Answered(started, 409, "Onboarding already completed.")
                       ELSE IF ~tz.ok
                       THEN Answered(started, 422, "Unsupported timezone")
                       ELSE IF \/ ~normalize_time(payload.work_hours_start).ok
                               \/ ~normalize_time(payload.work_hours_end).ok
                       THEN Answered(started, 422, "Invalid time value")
                       ELSE [started EXCEPT !.pc = "company", !.timezone = tz.timezone]]
    /\ UNCHANGED <<authTables, crudTables, emergency_vendors, nextId, last, google, roleTables>>

\* Lines 288-301: the company update.
onb_update_company_deferred(r) ==
    /\ onb[r].pc = "company"
    /\ onb' = [onb EXCEPT ![r].pc = "admin"]
    /\ UNCHANGED <<authTables, crudTables, emergency_vendors, nextId, last, google, roleTables>>

onb_update_company(r) ==
    /\ onb[r].pc = "company"
    /\ companies' =
           {IF x.id = onb[r].company_id
            THEN [x EXCEPT !.settings =
                     [timezone |-> onb[r].timezone,
                      work_hours_start |->
                          normalize_time(onb[r].payload.work_hours_start).text,
                      work_hours_end |->
                          normalize_time(onb[r].payload.work_hours_end).text]]
            ELSE x : x \in companies}
    /\ onb' = [onb EXCEPT ![r].pc = "admin"]
    /\ UNCHANGED <<auth_users, app_users, crudTables, emergency_vendors, nextId, last, google, roleTables>>

\* The order in which the credential store lists identities: by id, upwards
\* or downwards.
RECURSIVE Ascending(_)
Ascending(ids) ==
    IF ids = {} THEN <<>>
    ELSE LET least == CHOOSE i \in ids : \A j \in ids : i <= j
         IN  <<least>> \o Ascending(ids \ {least})

Reverse(seq) == [i \in DOMAIN seq |-> seq[Len(seq) + 1 - i]]

Listed(ids, order) == IF order = "up" THEN Ascending(ids) ELSE Reverse(Ascending(ids))

\* list_users(per_page=200), line 216: the first page of the listing.
PerPage == 200

ListedUsers(users, order) ==
    LET before(u) == {v \in users : IF order = "up" THEN v.id < u.id ELSE v.id > u.id}
    IN  {u \in users : Cardinality(before(u)) < PerPage}

\* _create_or_link_admin, lines 170-249. create_user answers with a new
\* identity or raises (always, for an email that is taken); generate_link
\* answers or raises; after a raise list_users answers with its first page,
\* in one order or the other, or raises. A new identity gets its app_users
\* row from the store's trigger, or gets none.
AdminReplies(email) ==
    IF EmailTaken(email)
    THEN {[create |-> "raise", link |-> "na", list |-> l, trigger |-> FALSE] :
              l \in {"up", "down", "raise"}}
    ELSE {[create |-> "user", link |-> "ok", list |-> "na", trigger |-> t] : t \in BOOLEAN}
         \cup {[create |-> "user", link |-> "raise", list |-> l, trigger |-> FALSE] :
                   l \in {"up", "raise"}}
         \cup {[create |-> "raise", link |-> "na", list |-> "up", trigger |-> FALSE]}

\* The profile update of the admin: the rows of the user get the company; a
\* row is inserted when there is none.
LinkAdmin(rows, user_id, company_id, fresh) ==
    IF \E x \in rows : x.user_id = user_id
    THEN {IF x.user_id = user_id THEN [x EXCEPT !.company_id = company_id] ELSE x : x \in rows}
    ELSE rows \cup {[id |-> fresh, user_id |-> user_id, company_id |-> company_id]}

\* _create_or_link_admin with the replies e: the identity is the one created,
\* or after a raise the listed identity with the email; 400 when there is
\* none, and then admin_created keeps its FALSE of line 303. An identity
\* created before the raise stays.
create_or_link_admin(r, e) ==
    LET email == lower(strip(onb[r].payload.admin))
        c == onb[r].company_id
        created == e.create = "user"
        users1 == IF created
                  THEN auth_users \cup {[id |-> nextId, email |-> email,
                                         password |-> ValidPassword,
                                         confirmed |-> FALSE]}
                  ELSE auth_users
        rows1 == IF created /\ e.trigger
                 THEN app_users \cup {[id |-> nextId + 1, user_id |-> nextId,
                                       company_id |-> NULL]}
                 ELSE app_users
        listed == IF e.list \in {"up", "down"} THEN ListedUsers(users1, e.list) ELSE {}
        found == {u.id : u \in {x \in listed : lower(x.email) = email}}
        user_ids == IF created /\ e.link = "ok" THEN {nextId} ELSE found
    IN  /\ auth_users' = users1
        /\ nextId' = IF created THEN nextId + 2 ELSE nextId
        /\ IF user_ids = {}
           THEN /\ app_users' = rows1
                /\ onb' = [onb EXCEPT ![r] =
                       Answered(@, 400, "Unable to create or link admin user")]
           ELSE \E user_id \in user_ids :
                /\ app_users' = LinkAdmin(rows1, user_id, c, nextId + 1)
                /\ onb' = [onb EXCEPT ![r].pc = "properties",
                                      ![r].admin_created = created]

\* Lines 305-306: the admin email, stripped and in lower case, is the acting
\* user's.
IsActingUserExactly(admin_email, acting_email) ==
    strip(admin_email) = strip(acting_email)

IsActingUser(admin_email, acting_email) ==
    lower(strip(admin_email)) = lower(strip(acting_email))

\* Lines 303-313: the admin account, when the payload names one other than
\* the caller.
onb_admin(r) ==
    /\ onb[r].pc = "admin"
    /\ IF \/ onb[r].payload.admin = NoAdmin
          \/ \E acting \in EmailOf(onb[r].user) : IsActingUser(onb[r].payload.admin, acting)
       THEN /\ onb' = [onb EXCEPT ![r].pc = "properties"]
            /\ UNCHANGED <<auth_users, app_users, nextId>>
       ELSE \E e \in AdminReplies(lower(strip(onb[r].payload.admin))) :
                create_or_link_admin(r, e)
    /\ UNCHANGED <<companies, crudTables, emergency_vendors, last, google, roleTables>>

\* Line 22.
PLACEHOLDER_VALUES == {"string", "null", "none", "undefined", "", "all"}

\* property_name_map, lines 330-331: the id of the row inserted for each
\* name, stripped and in lower case; the last one for a key given twice.
NameMapKeepsCase(names, first_id) ==
    {[name |-> names[i], id |-> first_id + i - 1] :
        i \in {j \in DOMAIN names : \A k \in DOMAIN names : names[k] = names[j] => k <= j}}

NameMap(names, first_id) ==
    {[name |-> lower(strip(names[i])), id |-> first_id + i - 1] :
        i \in {j \in DOMAIN names :
                  \A k \in DOMAIN names :
                      lower(strip(names[k])) = lower(strip(names[j])) => k <= j}}

\* Lines 315-331: the properties of the payload, in one insert.
onb_properties(r) ==
    /\ onb[r].pc = "properties"
    /\ LET names == onb[r].payload.properties
           rows == {[id |-> nextId + i - 1, company_id |-> onb[r].company_id,
                     name |-> names[i]] : i \in DOMAIN names}
       IN  /\ properties' = properties \cup rows
           /\ nextId' = nextId + Len(names)
           /\ onb' = [onb EXCEPT ![r].pc = "technicians",
                                 ![r].names = NameMap(names, nextId),
                                 ![r].inserted = @ \cup Ids(rows)]
    /\ UNCHANGED <<authTables, property_units, technicians, work_orders,
                   emergency_vendors, last, google, roleTables>>

\* _resolve_property_identifier, lines 140-167: NULL for no reference and for
\* a placeholder word, the id for an id of a property of the company, the
\* mapped id for the stripped, lower-case name of a property of this request;
\* anything else raises (422).
resolve_property_of_any_company(ref, company_id, names) ==
    IF ref.kind = "none" THEN [ok |-> TRUE, id |-> NULL]
    ELSE IF ref.kind = "uuid"
    THEN [ok |-> \E p \in properties : p.id = ref.id, id |-> ref.id]
    ELSE LET candidate == strip(ref.name)
         IN  IF lower(candidate) \in PLACEHOLDER_VALUES THEN [ok |-> TRUE, id |-> NULL]
             ELSE IF \E n \in names : n.name = lower(candidate)
             THEN [ok |-> TRUE, id |-> (CHOOSE n \in names : n.name = lower(candidate)).id]
             ELSE [ok |-> FALSE, id |-> NULL]

resolve_property_identifier(ref, company_id, names) ==
    IF ref.kind = "none" THEN [ok |-> TRUE, id |-> NULL]
    ELSE IF ref.kind = "uuid"
    THEN [ok |-> RowInCompany(properties, ref.id, company_id), id |-> ref.id]
    ELSE LET candidate == strip(ref.name)
         IN  IF lower(candidate) \in PLACEHOLDER_VALUES THEN [ok |-> TRUE, id |-> NULL]
             ELSE IF \E n \in names : n.name = lower(candidate)
             THEN [ok |-> TRUE, id |-> (CHOOSE n \in names : n.name = lower(candidate)).id]
             ELSE [ok |-> FALSE, id |-> NULL]

\* Lines 333-362: the technicians of the payload, each default property
\* resolved, in one insert.
onb_technicians(r) ==
    /\ onb[r].pc = "technicians"
    /\ LET refs == onb[r].payload.technicians
           res(i) == resolve_property_identifier(refs[i], onb[r].company_id, onb[r].names)
           rows == {[id |-> nextId + i - 1, company_id |-> onb[r].company_id,
                     default_property_id |-> res(i).id, first_name |-> "n1"] :
                        i \in DOMAIN refs}
       IN  IF \E i \in DOMAIN refs : ~res(i).ok
           THEN /\ onb' = [onb EXCEPT ![r] =
                       Answered(@, 422, "Unknown property reference")]
                /\ UNCHANGED <<technicians, nextId>>
           ELSE /\ technicians' = technicians \cup rows
                /\ nextId' = nextId + Len(refs)
                /\ onb' = [onb EXCEPT ![r].pc = "vendors",
                                      ![r].inserted = @ \cup Ids(rows)]
    /\ UNCHANGED <<authTables, properties, property_units, work_orders,
                   emergency_vendors, last, google, roleTables>>

\* Lines 364-400: the emergency vendors of the payload, in one insert, and the
\* response.
onb_vendors(r) ==
    /\ onb[r].pc = "vendors"
    /\ LET names == onb[r].payload.emergency_vendors
           rows == {[id |-> nextId + i - 1, company_id |-> onb[r].company_id,
                     name |-> names[i]] : i \in DOMAIN names}
       IN  /\ emergency_vendors' = emergency_vendors \cup rows
           /\ nextId' = nextId + Len(names)
           /\ onb' = [onb EXCEPT ![r] =
                   Answered([@ EXCEPT !.inserted = @ \cup Ids(rows)], 200, "")]
    /\ UNCHANGED <<authTables, crudTables, last, google, roleTables>>

\* ---------------------------------------------- the onboarding specification
\* The tenants of the resource specification, with every request slot idle.
InitOnb ==
    /\ InitTenants
    /\ onb = [r \in Requests |-> IdleRequest]
    /\ google = <<>>
    /\ owners = {}
    /\ subcontractors = {}

NextOnb ==
    \/ \E r \in Requests, u \in Callers, payload \in OnbPayloads : onb_start(r, u, payload)
    \/ \E r \in Requests : onb_update_company(r)
    \/ \E r \in Requests : onb_admin(r)
    \/ \E r \in Requests : onb_properties(r)
    \/ \E r \in Requests : onb_technicians(r)
    \/ \E r \in Requests : onb_vendors(r)

SpecOnb == InitOnb /\ [][NextOnb]_vars

\* ------------------------------------------------------ the status query
\* Line 485: REVERSE_TIMEZONE_ALIASES.get(timezone, timezone).
timezone_label(timezone) ==
    IF timezone \in REVERSE_TIMEZONE_ALIASES
    THEN CHOOSE alias \in DOMAIN TIMEZONE_ALIASES : TIMEZONE_ALIASES[alias] = timezone
    ELSE timezone

NoStatus(status, detail) ==
    [op |-> "get_onboarding_status", status |-> status, detail |-> detail,
     company_id |-> NULL, timezone |-> Unset, timezone_label |-> Unset,
     work_hours_start |-> <<>>, work_hours_end |-> <<>>,
     onboarding_completed |-> FALSE]

\* get_onboarding_status: the company's settings as the response renders them
\* and the flag computed from the three lists of the company's rows.
get_onboarding_status(u) ==
    /\ IF get_app_user(u) = {}
       THEN last' = NoStatus(400, "User profile not found.")
       ELSE \E au \in get_app_user(u) :
           LET c == au.company_id
               company == {x \in companies : x.id = c}
               properties_data == {x \in properties : x.company_id = c}
               technicians_data == {x \in technicians : x.company_id = c}
               vendors_data == {x \in emergency_vendors : x.company_id = c}
           IN  IF c = NULL THEN last' = NoStatus(400, "Company not provisioned.")
               ELSE IF company = {} THEN last' = NoStatus(400, "Company record missing.")
               ELSE \E row \in company :
                   last' = [op |-> "get_onboarding_status", status |-> 200, detail |-> "",
                            company_id |-> c,
                            timezone |-> row.settings.timezone,
                            timezone_label |-> timezone_label(row.settings.timezone),
                            work_hours_start |->
                                format_time_for_response(row.settings.work_hours_start),
                            work_hours_end |->
                                format_time_for_response(row.settings.work_hours_end),
                            onboarding_completed |->
                                \/ properties_data # {}
                                \/ technicians_data # {}
                                \/ vendors_data # {}]
    /\ UNCHANGED <<authTables, crudTables, emergency_vendors, nextId, onb, google, roleTables>>

\* The work-hour texts a request body may carry: HH:MM, HH:MM:SS, a
\* one-digit hour, an hour and a minute out of range, digits without a
\* colon, and nothing.
TimeTexts ==
    {HHMM(9, 0), HHMM(23, 59), HHMMSS(9, 0, 0), HHMMSS(9, 0, 30),
     <<TimeField(1, 9), TimeField(2, 0)>>, HHMM(24, 0), HHMM(9, 60),
     <<TimeField(4, 900)>>, <<>>}

\* The bodies of the status specification: every work-hour text, with or
\* without properties and emergency vendors.
StatusBodies ==
    {[p EXCEPT !.work_hours_start = t] :
        p \in {q \in OnbPayloads :
                  /\ q.timezone \in DOMAIN TIMEZONE_ALIASES
                  /\ q.admin = NoAdmin
                  /\ q.technicians = <<>>},
        t \in TimeTexts}

\* A first-time onboarding request: the body is validated as an
\* OnboardingRequest (422 when it is not one) and handed to
\* complete_first_time_onboarding.
OnboardingRequest(r, u, body) ==
    IF OnboardingRequestAccepts(body) THEN onb_start(r, u, body)
    ELSE /\ last' = [op |-> "OnboardingRequest", status |-> 422,
                     detail |-> "work hours must use HH:MM 24-hour format",
                     work_hours_start |-> body.work_hours_start]
         /\ UNCHANGED <<authTables, crudTables, emergency_vendors, nextId, onb, google, roleTables>>

\* Requests one after another, status queries and sign-ins of the three users.
NextStatus ==
    \/ \E r \in Requests, u \in Callers, body \in StatusBodies :
         /\ \A q \in Requests : ~InFlight(q)
         /\ OnboardingRequest(r, u, body)
    \/ \E r \in Requests : onb_update_company(r)
    \/ \E r \in Requests : onb_admin(r)
    \/ \E r \in Requests : onb_properties(r)
    \/ \E r \in Requests : onb_technicians(r)
    \/ \E r \in Requests : onb_vendors(r)
    \/ \E u \in {UserA, UserB, UserNone} : get_onboarding_status(u)
    \/ \E email \in {"a@x.com", "b@x.com", "c@x.com"} : signin_user(email, ValidPassword)

SpecStatus == InitOnb /\ [][NextStatus]_vars

\* ------------------------------------------------- the write specification
\* The creates and updates that store a reference to another row, by company
\* A's user, while a first-time onboarding request of the same user is in
\* flight: company A's properties come from that request, which inserts at
\* least one (a request after it is answered 409 before any write).
WritePayloads ==
    {p \in OnbPayloads :
        /\ p.timezone \in DOMAIN TIMEZONE_ALIASES
        /\ p.admin = NoAdmin
        /\ p.properties # <<>>
        /\ p.technicians # <<>>
        /\ p.technicians[1].kind # "none"
        /\ p.emergency_vendors = <<>>}

NextWrites ==
    \/ \E r \in Requests, payload \in WritePayloads :
         /\ \A q \in Requests : onb[q].pc = "idle"
         /\ onb_start(r, UserA, payload)
    \/ \E r \in Requests : onb_update_company(r)
    \/ \E r \in Requests : onb_admin(r)
    \/ \E r \in Requests : onb_properties(r)
    \/ \E r \in Requests : onb_technicians(r)
    \/ \E r \in Requests : onb_vendors(r)
    \/ \E id \in IdArgs(UserA, properties), label \in CreateNames :
         create_unit(UserA, id, label)
    \/ \E p \in IdArgs(UserA, properties) \cup {NULL}, name \in CreateNames :
         create_technician(UserA, p, name)
    \/ \E id \in IdArgs(UserA, technicians) :
         \E p \in LaterArgs(UserA, technicians, id, IdArgs(UserA, properties) \cup {NULL}) :
             update_technician(UserA, id, p, Unset)
    \/ \E p \in IdArgs(UserA, properties) :
         \E unit \in LaterArgs(UserA, properties, p, UnitArgs(UserA)),
            t \in LaterArgs(UserA, properties, p, IdArgs(UserA, technicians) \cup {NULL}) :
             create_work_order(UserA, p, unit.unit_id, unit.unit_label, t)
    \/ \E id \in IdArgs(UserA, work_orders) :
         \E t \in LaterArgs(UserA, work_orders, id,
                            IdArgs(UserA, technicians) \cup {NULL, EmptyId}) :
             update_work_order(UserA, id, t, Unset)

SpecWrites == InitOnb /\ [][NextWrites]_vars

\* ------------------------------------------- the precondition specification
\* Two more users for the preconditions of first-time onboarding: an identity
\* without a profile row, and a user whose profile row names a company whose
\* row is gone. Their ids lie outside the ids the run allocates.
UserGhost == FirstFreeId + 20
UserOrphan == UserGhost + 1
CompanyGone == UserOrphan + 1

GuardUsers ==
    {[id |-> u.id, email |-> u.email, password |-> ValidPassword, confirmed |-> TRUE] :
        u \in {[id |-> UserA, email |-> "a@x.com"],
               [id |-> UserB, email |-> "b@x.com"],
               [id |-> UserNone, email |-> "c@x.com"],
               [id |-> UserGhost, email |-> "g@x.com"],
               [id |-> UserOrphan, email |-> "o@x.com"]}}

InitGuardsWith(identities) ==
    /\ companies = {[id |-> CompanyA, name |-> "Acme", settings |-> NoSettings],
                    [id |-> CompanyB, name |-> "Acme", settings |-> NoSettings]}
    /\ properties = {[id |-> PropertyB, company_id |-> CompanyB, name |-> "n1"]}
    /\ property_units = {[id |-> UnitB, company_id |-> CompanyB,
                          property_id |-> PropertyB, label |-> "n1"]}
    /\ technicians = {[id |-> TechnicianB, company_id |-> CompanyB,
                       default_property_id |-> PropertyB, first_name |-> "n1"]}
    /\ work_orders = {[id |-> WorkOrderB, company_id |-> CompanyB,
                       property_id |-> PropertyB, unit_id |-> UnitB,
                       assigned_technician_id |-> TechnicianB, status |-> "open",
                       priority |-> "routine"]}
    /\ emergency_vendors = {}
    /\ nextId = FirstFreeId
    /\ last = NoOutcome
    /\ google = <<>>
    /\ owners = {}
    /\ subcontractors = {}
    /\ onb = [r \in Requests |-> IdleRequest]
    /\ auth_users = identities
    /\ app_users = {[id |-> UserA + 2, user_id |-> UserA, company_id |-> CompanyA],
                    [id |-> UserB + 2, user_id |-> UserB, company_id |-> CompanyB],
                    [id |-> UserNone + 2, user_id |-> UserNone, company_id |-> NULL],
                    [id |-> UserOrphan + 2, user_id |-> UserOrphan,
                     company_id |-> CompanyGone]}

InitGuards == InitGuardsWith(GuardUsers)

GuardCallers == {UserA, UserB, UserNone, UserGhost, UserOrphan}

\* Bodies the request model accepts, with or without each child list.
GuardPayloads ==
    {p \in OnbPayloads :
        /\ p.timezone \in DOMAIN TIMEZONE_ALIASES
        /\ p.admin = NoAdmin
        /\ p.technicians \in {<<>>, <<NoRef>>}}

NextGuards ==
    \/ \E r \in Requests, u \in GuardCallers, payload \in GuardPayloads :
         onb_start(r, u, payload)
    \/ \E r \in Requests : onb_update_company(r)
    \/ \E r \in Requests : onb_admin(r)
    \/ \E r \in Requests : onb_properties(r)
    \/ \E r \in Requests : onb_technicians(r)
    \/ \E r \in Requests : onb_vendors(r)

SpecGuards == InitGuards /\ [][NextGuards]_vars

\* ------------------------------------------------------------ token refresh
\* A token as a client presents it: the claims it was minted with, and whether
\* it is intact and current, past its expiry, or does not decode.
TokenConditions == {"valid", "expired", "malformed"}

PresentedTokens ==
    {[claims |-> t, condition |-> c] :
        t \in {create_refresh_token(sub) : sub \in Ids(auth_users) \cup {NULL, nextId}}
              \cup {create_access_token(u.id, u.email) : u \in auth_users},
        c \in TokenConditions}

\* app.core.security.verify_token: the claims of a token that decodes, has
\* not expired and is of the type asked for.
verify_token(token, token_type) ==
    [ok |-> token.condition = "valid" /\ token.claims.type = token_type,
     payload |-> token.claims]

\* How verify_token signals a token it does not accept: an HTTPException with
\* status 401, or another exception.
VerifyFailures == {"http_401", "error"}

\* Lines 284-294: the email of the subject, when the service key is set and
\* the admin lookup answers with a user; any failure is swallowed.
AdminLookups == {"nokey", "user", "nouser", "raise"}

LookupEmail(user_id, lookup) ==
    LET found == {u.email : u \in {x \in auth_users : x.id = user_id}}
    IN  IF lookup = "user" /\ found # {} THEN CHOOSE e \in found : TRUE ELSE ""

NoPair == [access_token |-> NoToken, refresh_token |-> NoToken]

\* refresh_access_token, were it to skip the check of the subject claim.
RefreshOutcomeWithoutSubjectCheck(token, failure, lookup, mint) ==
    LET verified == verify_token(token, "refresh")
        user_id == verified.payload.sub
    IN  IF ~verified.ok
        THEN [status |-> 401,
              detail |-> IF failure = "http_401" THEN "Could not validate credentials"
                         ELSE "Could not refresh token",
              result |-> NoPair]
        ELSE IF mint = "raise"
        THEN [status |-> 401, detail |-> "Could not refresh token", result |-> NoPair]
        ELSE [status |-> 200, detail |-> "",
              result |-> [access_token |->
                              create_access_token(user_id, LookupEmail(user_id, lookup)),
                          refresh_token |-> create_refresh_token(user_id)]]

\* Lines 274-315: verify, require a subject, look the email up, mint the new
\* pair; an HTTPException passes through, any other exception becomes 401.
RefreshOutcome(token, failure, lookup, mint) ==
    LET verified == verify_token(token, "refresh")
        user_id == verified.payload.sub
    IN  IF ~verified.ok
        THEN [status |-> 401,
              detail |-> IF failure = "http_401" THEN "Could not validate credentials"
                         ELSE "Could not refresh token",
              result |-> NoPair]
        ELSE IF user_id = NULL
        THEN [status |-> 401, detail |-> "Invalid refresh token", result |-> NoPair]
        ELSE IF mint = "raise"
        THEN [status |-> 401, detail |-> "Could not refresh token", result |-> NoPair]
        ELSE [status |-> 200, detail |-> "",
              result |-> [access_token |->
                              create_access_token(user_id, LookupEmail(user_id, lookup)),
                          refresh_token |-> create_refresh_token(user_id)]]

refresh_access_token(token) ==
    /\ \E failure \in VerifyFailures, lookup \in AdminLookups, mint \in {"ok", "raise"} :
         LET out == RefreshOutcome(token, failure, lookup, mint)
         IN  last' = [op |-> "refresh_access_token", status |-> out.status,
                      detail |-> out.detail, token |-> token, lookup |-> lookup,
                      mint |-> mint, result |-> out.result]
    /\ UNCHANGED <<authTables, crudTables, emergency_vendors, nextId, onb, google, roleTables>>

\* --------------------------------------------------- the token specification
\* Sign-ins and refreshes of the three users of the resource specification,
\* with every token a client can present.
NextTokens ==
    \/ \E email \in Emails \cup {"a@x.com", "b@x.com", "c@x.com"},
          password \in AccountPasswords :
         signin_user(email, password)
    \/ \E token \in PresentedTokens : refresh_access_token(token)

SpecTokens == InitCrud /\ [][NextTokens]_vars

\* ----------------------------------------------------------- Google sign-in
\* signin_with_google and _ensure_company_profile, one store call at a time.
MaxGoogle == 2

GoogleRequests == 1..MaxGoogle

\* The issuers line 492 accepts.
GoogleIssuers == {"accounts.google.com", "https://accounts.google.com"}

\* The id tokens presented: for the email of company A's user, of the user
\* whose profile row has no company and of nobody yet; whether
\* verify_oauth2_token accepts it, its issuer and its hosted-domain claim.
GoogleTokens ==
    [email : {"a@x.com", "c@x.com", "g@x.com"},
     valid : BOOLEAN,
     iss : GoogleIssuers \cup {"accounts.example.com"},
     hd : {"", "Acme"}]

\* A request slot: where the handler is, what it has read and written so far
\* (`inserted`: the ids of the rows it created), and its response once
\* answered. `after` holds the requests of the same email that had been
\* answered with success when it arrived.
IdleGoogle ==
    [pc |-> "idle", email |-> "", hd |-> "", user_id |-> NULL, company_id |-> NULL,
     created_profile |-> FALSE, created_company |-> FALSE, inserted |-> {},
     after |-> {}, status |-> NULL, detail |-> "", is_new_user |-> FALSE]

GoogleAnswered(req, status, detail) ==
    [req EXCEPT !.pc = "done", !.status = status, !.detail = detail]

\* Lines 206 and 539-559: the return of _ensure_company_profile and the
\* response built from it.
GoogleReturned(req, company_id) ==
    [req EXCEPT !.pc = "done", !.status = 200, !.company_id = company_id,
                !.is_new_user = req.created_profile \/ req.created_company]

googleRest == <<properties, property_units, technicians, work_orders,
                emergency_vendors, onb, roleTables, last>>

\* Lines 486-513: verify the id token and its issuer, then exchange it with
\* the credential store for a session. The store provisions the identity of
\* an email it does not know; its trigger may insert the app_users row.
g_signin(r, token) ==
    /\ google[r].pc = "idle"
    /\ \A q \in GoogleRequests : q < r => google[q].pc # "idle"
    /\ LET req == [google[r] EXCEPT
                      !.email = token.email, !.hd = token.hd,
                      !.after = {q \in GoogleRequests :
                                    /\ google[q].pc = "done"
                                    /\ google[q].status = 200
                                    /\ google[q].email = token.email}]
           known == {u \in auth_users : u.email = token.email}
       IN  IF ~token.valid \/ token.iss \notin GoogleIssuers
           THEN /\ google' = [google EXCEPT ![r] =
                                  GoogleAnswered(req, 400, "Invalid Google token")]
                /\ UNCHANGED <<authTables, nextId>>
           ELSE \E reply \in {"session", "none", "raise"} :
                  IF reply # "session"
                  THEN /\ google' = [google EXCEPT ![r] =
                                         GoogleAnswered(req, 400, "Google authentication failed")]
                       /\ UNCHANGED <<authTables, nextId>>
                  ELSE IF known # {}
                  THEN /\ \E u \in known :
                            google' = [google EXCEPT ![r] =
                                          [req EXCEPT !.pc = "profile", !.user_id = u.id]]
                       /\ UNCHANGED <<authTables, nextId>>
                  ELSE \E trigger \in BOOLEAN :
                       /\ auth_users' = auth_users \cup
                              {[id |-> nextId, email |-> token.email,
                                password |-> <<>>, confirmed |-> TRUE]}
                       /\ app_users' = IF trigger
                                       THEN app_users \cup
                                                {[id |-> nextId + 1, user_id |-> nextId,
                                                  company_id |-> NULL]}
                                       ELSE app_users
                       /\ nextId' = nextId + 2
                       /\ google' = [google EXCEPT ![r] =
                                         [req EXCEPT !.pc = "profile", !.user_id = nextId]]
                       /\ UNCHANGED companies
    /\ UNCHANGED googleRest

\* Lines 160-169 and 195-206: read the profile row; with a company on it the
\* function returns, without one it goes on to create the company, and
\* without a row to insert one.
g_profile(r) ==
    /\ google[r].pc = "profile"
    /\ \E reply \in {"ok", "raise"} :
         LET req == google[r]
             rows == {x \in app_users : x.user_id = req.user_id}
         IN  google' = [google EXCEPT ![r] =
                 IF reply = "raise"
                 THEN GoogleAnswered(req, 400, "Google authentication failed")
                 ELSE IF rows = {} THEN [req EXCEPT !.pc = "insert"]
                 ELSE LET row == CHOOSE x \in rows : TRUE
                      IN  IF row.company_id # NULL
                          THEN GoogleReturned(req, row.company_id)
                          ELSE [req EXCEPT !.pc = "company"]]
    /\ UNCHANGED <<authTables, nextId, googleRest>>

\* Lines 170-180: insert the profile row. app_users holds one row per user:
\* the insert raises when another request has inserted the row meanwhile.
g_insert(r) ==
    /\ google[r].pc = "insert"
    /\ \E reply \in {"row", "raise"} :
         LET req == google[r]
         IN  IF reply = "raise" \/ \E x \in app_users : x.user_id = req.user_id
             THEN /\ google' = [google EXCEPT ![r] =
                                    GoogleAnswered(req, 400, "Google authentication failed")]
                  /\ UNCHANGED <<app_users, nextId>>
             ELSE /\ app_users' = app_users \cup
                          {[id |-> nextId, user_id |-> req.user_id, company_id |-> NULL]}
                  /\ nextId' = nextId + 1
                  /\ google' = [google EXCEPT ![r] =
                                    [req EXCEPT !.pc = "company", !.created_profile = TRUE,
                                                !.inserted = @ \cup {nextId}]]
    /\ UNCHANGED <<auth_users, companies, googleRest>>

\* Lines 196-202: insert the company, named after the hint or the user.
g_company(r) ==
    /\ google[r].pc = "company"
    /\ \E reply \in {"row", "empty", "raise"} :
         LET req == google[r]
         IN  IF reply # "row"
             THEN /\ google' = [google EXCEPT ![r] =
                                    GoogleAnswered(req, 400, "Google authentication failed")]
                  /\ UNCHANGED <<companies, nextId>>
             ELSE /\ companies' = companies \cup
                          {[id |-> nextId,
                            name |-> IF req.hd # "" THEN req.hd ELSE "Google User",
                            settings |-> NoSettings]}
                  /\ nextId' = nextId + 1
                  /\ google' = [google EXCEPT ![r] =
                                    [req EXCEPT !.pc = "link", !.company_id = nextId,
                                                !.inserted = @ \cup {nextId}]]
    /\ UNCHANGED <<auth_users, app_users, googleRest>>

\* Lines 203-206 and 546-559: write the company on the rows of the user and
\* return.
g_link(r) ==
    /\ google[r].pc = "link"
    /\ \E reply \in {"ok", "raise"} :
         LET req == google[r]
         IN  IF reply = "raise"
             THEN /\ google' = [google EXCEPT ![r] =
                                    GoogleAnswered(req, 400, "Google authentication failed")]
                  /\ UNCHANGED app_users
             ELSE /\ app_users' = {IF x.user_id = req.user_id
                                   THEN [x EXCEPT !.company_id = req.company_id]
                                   ELSE x : x \in app_users}
                  /\ google' = [google EXCEPT ![r] =
                                    GoogleReturned([req EXCEPT !.created_company = TRUE],
                                                   req.company_id)]
    /\ UNCHANGED <<auth_users, companies, nextId, googleRest>>

\* -------------------------------------------------- the Google specification
InitGoogle ==
    /\ InitTenants
    /\ onb = <<>>
    /\ google = [r \in GoogleRequests |-> IdleGoogle]
    /\ owners = {}
    /\ subcontractors = {}

NextGoogle ==
    \/ \E r \in GoogleRequests, token \in GoogleTokens : g_signin(r, token)
    \/ \E r \in GoogleRequests : g_profile(r)
    \/ \E r \in GoogleRequests : g_insert(r)
    \/ \E r \in GoogleRequests : g_company(r)
    \/ \E r \in GoogleRequests : g_link(r)

SpecGoogle == InitGoogle /\ [][NextGoogle]_vars

\* ------------------------------------------------ role-specific onboarding
\* routes_onboarding.py, lines 22-63: POST /onboarding/owner and POST
\* /onboarding/subcontractor. The two services the routes call,
\* onboard_owner_or_pm and onboard_subcontractor, are imported from
\* app.services.onboarding_service (lines 11-18) but are not in the sources
\* at hand; they are modelled from section 4.5 of the specification.
OwnerRoles == {"owner", "property_manager"}
DocumentRefs == {Unset, "pma/a.pdf"}
OwnerPayloads == [role : OwnerRoles, pma_document_url : DocumentRefs]
StoreReplies == {"ok", "fail"}

\* The callers get_current_active_user lets through (deps.py, lines 77-84).
ActiveUsers == {u.id : u \in {x \in auth_users : x.confirmed}}

\* Whether a role-specific record exists for the identity.
HasRoleRecord(user_id) ==
    \/ \E o \in owners : o.user_id = user_id
    \/ \E s \in subcontractors : s.user_id = user_id

Returned(value) == [raised |-> "none", status |-> 201, value |-> value]
RaisedHTTP(code) == [raised |-> "HTTPException", status |-> code, value |-> NULL]
RaisedOther == [raised |-> "Exception", status |-> NULL, value |-> NULL]

\* Section 4.5: reject with a conflict when a role record exists; a property
\* manager needs a document reference; a failed store call is an exception
\* of the store's client.
onboard_owner_or_pm(user_id, payload, store) ==
    IF HasRoleRecord(user_id) THEN RaisedHTTP(409)
    ELSE IF payload.role = "property_manager" /\ payload.pma_document_url = Unset
         THEN RaisedHTTP(400)
    ELSE IF store = "fail" THEN RaisedOther
    ELSE Returned(user_id)

onboard_subcontractor(user_id, store) ==
    IF HasRoleRecord(user_id) THEN RaisedHTTP(409)
    ELSE IF store = "fail" THEN RaisedOther
    ELSE Returned(user_id)

\* Lines 35-41 and 57-63: the result is returned with status 201 (lines 25,
\* 47), an HTTPException is raised again as it is, every other exception
\* becomes 400.
RoleRouteAnswerAlways400(outcome) ==
    IF outcome.raised = "none" THEN 201 ELSE 400

RoleRouteAnswer(outcome) ==
    IF outcome.raised = "none" THEN 201
    ELSE IF outcome.raised = "HTTPException" THEN outcome.status
    ELSE 400

roleRest == <<authTables, crudTables, emergency_vendors, nextId, onb, google>>

\* POST /onboarding/owner
onboard_owner_pm(u, payload, store) ==
    /\ u \in ActiveUsers
    /\ LET outcome == onboard_owner_or_pm(u, payload, store)
       IN  /\ owners' = IF outcome.raised = "none"
                        THEN owners \cup {[user_id |-> u, role |-> payload.role,
                                           pma_document_url |-> payload.pma_document_url]}
                        ELSE owners
           /\ last' = [op |-> "onboard_owner_pm", user |-> u,
                       status |-> RoleRouteAnswer(outcome)]
    /\ UNCHANGED <<subcontractors, roleRest>>

\* POST /onboarding/subcontractor
onboard_subcontractor_route(u, store) ==
    /\ u \in ActiveUsers
    /\ LET outcome == onboard_subcontractor(u, store)
       IN  /\ subcontractors' = IF outcome.raised = "none"
                                THEN subcontractors \cup {[user_id |-> u]}
                                ELSE subcontractors
           /\ last' = [op |-> "onboard_subcontractor_route", user |-> u,
                       status |-> RoleRouteAnswer(outcome)]
    /\ UNCHANGED <<owners, roleRest>>

NextRoles ==
    \/ \E u \in Ids(auth_users), payload \in OwnerPayloads, store \in StoreReplies :
           onboard_owner_pm(u, payload, store)
    \/ \E u \in Ids(auth_users), store \in StoreReplies :
           onboard_subcontractor_route(u, store)

SpecRoles == InitCrud /\ [][NextRoles]_vars
\* ------------------------------------------- the reference specification
\* First-time onboarding of company A, one request after another, with
\* property names in either case and with blanks around them, and technicians
\* that refer to a property by name, by id, by a placeholder word or not at
\* all; POST /properties of the same company runs in between, so that a
\* request can name a property of its company by id.
ResolveRefs ==
    {NoRef, NameRef("p1"), NameRef(" P1 "), NameRef("q1"), NameRef("all"),
     UuidRef(PropertyB), UuidRef(FirstFreeId)}

ResolvePayloads ==
    [timezone : {"Eastern (Detroit)"},
     work_hours_start : {HHMM(9, 0)},
     work_hours_end : {HHMM(17, 30)},
     admin : {NoAdmin},
     properties : {<<>>, <<"P1">>, <<" P1 ">>, <<"All">>, <<"p1", "P1">>},
     technicians : {<<>>} \cup {<<ref>> : ref \in ResolveRefs}
                       \cup {<<NameRef("p1"), NameRef("q1")>>},
     emergency_vendors : {<<>>}]

NextResolve ==
    \/ \E r \in Requests, payload \in ResolvePayloads :
         /\ \A q \in Requests : ~InFlight(q)
         /\ onb_start(r, UserA, payload)
    \/ \E r \in Requests : onb_update_company(r)
    \/ \E r \in Requests : onb_admin(r)
    \/ \E r \in Requests : onb_properties(r)
    \/ \E r \in Requests : onb_technicians(r)
    \/ \E r \in Requests : onb_vendors(r)
    \/ create_property(UserA, "n1")

SpecResolve == InitOnb /\ [][NextResolve]_vars
\* ------------------------------------------------- verify_email (by token)
\* auth_service.py, lines 317-403. A presented token is blank, or it is the
\* link token, the token hash or the one-time code the credential store
\* issued for an identity, or it is none of these.
TokenKinds == {"link", "hash", "otp", "junk"}
BlankToken == [blank |-> TRUE, kind |-> "junk", user |-> NULL]
VerifyTokens ==
    {BlankToken} \cup [blank : {FALSE}, kind : TokenKinds \ {"junk"}, user : Ids(auth_users)]
                 \cup [blank : {FALSE}, kind : {"junk"}, user : {NULL}]

\* The three token methods in the order of lines 327-371, and the kind of
\* token each endpoint accepts.
TokenMethods == <<"direct", "hash", "raw">>
MethodKind == [direct |-> "link", hash |-> "hash", raw |-> "otp"]

Unconfirmed == {u.id : u \in {x \in auth_users : ~x.confirmed}}

\* A listing that raised, and one answered with another status than 200; no
\* identity has such an id.
ListRaised == <<-1>>
ListStatus == <<-2>>

\* The orders in which GET /auth/v1/admin/users lists the identities.
Listings == {Listed(Ids(auth_users), "up"), Listed(Ids(auth_users), "down")}

\* What the outside answers to one call of verify_email: the token endpoints
\* are up, or one of them or all of them raise; SUPABASE_SERVICE_KEY is set
\* or not; the listing answers with the identities, with another status, or
\* raises; each PUT of email_confirm answers 200, another status, or raises.
EndpointReplies ==
    {[direct |-> "up", hash |-> "up", raw |-> "up"],
     [direct |-> "raise", hash |-> "up", raw |-> "up"],
     [direct |-> "up", hash |-> "raise", raw |-> "up"],
     [direct |-> "up", hash |-> "up", raw |-> "raise"],
     [direct |-> "raise", hash |-> "raise", raw |-> "raise"]}

AdminReplySets ==
    [key : {TRUE},
     listing : Listings \cup {ListStatus, ListRaised},
     confirm : [Unconfirmed -> {"200", "status", "raise"}]]
    \cup [key : {FALSE}, listing : {ListRaised}, confirm : [Unconfirmed -> {"200"}]]

VerifyEnvs ==
    {[direct |-> e.direct, hash |-> e.hash, raw |-> e.raw,
      key |-> a.key, listing |-> a.listing, confirm |-> a.confirm] :
        e \in EndpointReplies, a \in AdminReplySets}

Call(method, user, result) == [method |-> method, user |-> user, result |-> result]

\* One token method: the endpoint confirms the identity the token was issued
\* for, when it is up and the token is of its kind and not used up.
TokenMethod(method, token, env) ==
    IF env[method] = "raise" THEN Call(method, NULL, "raise")
    ELSE IF token.kind = MethodKind[method] /\ token.user \in Unconfirmed
    THEN Call(method, token.user, "success")
    ELSE Call(method, NULL, "failure")

\* Lines 388-395: the identities in the order listed; the first one without
\* email_confirmed_at whose PUT answers 200 ends the loop, a PUT that raises
\* ends it too (line 397).
RECURSIVE ForceConfirm(_, _)
ForceConfirm(listing, confirm) ==
    IF listing = <<>> THEN <<>>
    ELSE IF Head(listing) \notin Unconfirmed THEN ForceConfirm(Tail(listing), confirm)
    ELSE IF confirm[Head(listing)] = "200"
    THEN <<Call("confirm", Head(listing), "success")>>
    ELSE IF confirm[Head(listing)] = "raise"
    THEN <<Call("confirm", Head(listing), "raise")>>
    ELSE <<Call("confirm", Head(listing), "failure")>>
             \o ForceConfirm(Tail(listing), confirm)

\* Lines 374-398: the administrative method, only with a service key.
AdminMethodWithoutKey(env) ==
    IF env.listing = ListRaised THEN <<Call("list", NULL, "raise")>>
    ELSE IF env.listing = ListStatus THEN <<Call("list", NULL, "failure")>>
    ELSE <<Call("list", NULL, "listed")>> \o ForceConfirm(env.listing, env.confirm)

AdminMethod(env) ==
    IF ~env.key THEN <<>>
    ELSE IF env.listing = ListRaised THEN <<Call("list", NULL, "raise")>>
    ELSE IF env.listing = ListStatus THEN <<Call("list", NULL, "failure")>>
    ELSE <<Call("list", NULL, "listed")>> \o ForceConfirm(env.listing, env.confirm)

\* The calls verify_email makes, in order, each with its result.
VerifyCallsOfTokenOwner(token, env) ==
    LET first == TokenMethod("direct", token, env)
        second == TokenMethod("hash", token, env)
        third == TokenMethod("raw", token, env)
        owner == IF env.key /\ token.user \in Unconfirmed /\ env.listing \in Listings
                 THEN <<Call("list", NULL, "listed"),
                        Call("confirm", token.user,
                             IF env.confirm[token.user] = "200" THEN "success"
                             ELSE "failure")>>
                 ELSE <<>>
    IN  IF token.blank THEN <<>>
        ELSE IF first.result = "success" THEN <<first>>
        ELSE IF second.result = "success" THEN <<first, second>>
        ELSE IF third.result = "success" THEN <<first, second, third>>
        ELSE <<first, second, third>> \o owner

VerifyCalls(token, env) ==
    LET first == TokenMethod("direct", token, env)
        second == TokenMethod("hash", token, env)
        third == TokenMethod("raw", token, env)
    IN  IF token.blank THEN <<>>
        ELSE IF first.result = "success" THEN <<first>>
        ELSE IF second.result = "success" THEN <<first, second>>
        ELSE IF third.result = "success" THEN <<first, second, third>>
        ELSE <<first, second, third>> \o AdminMethod(env)

\* verify_email(token): True (200) when the last call succeeded, and then the
\* credential store has confirmed the identity of that call; 400 otherwise.
verify_email(token, env) ==
    LET calls == VerifyCalls(token, env)
        ok == calls # <<>> /\ calls[Len(calls)].result = "success"
        who == IF ok THEN calls[Len(calls)].user ELSE NULL
    IN  /\ auth_users' = {IF u.id = who THEN [u EXCEPT !.confirmed = TRUE] ELSE u :
                              u \in auth_users}
        /\ last' = [op |-> "verify_email", blank |-> token.blank, key |-> env.key,
                    calls |-> calls, confirmed |-> who,
                    status |-> IF ok THEN 200 ELSE 400,
                    detail |-> IF ok THEN ""
                               ELSE IF token.blank THEN "Verification token is required"
                               ELSE "Email verification failed"]
        /\ UNCHANGED <<companies, app_users, crudTables, emergency_vendors, nextId,
                       onb, google, roleTables>>

\* Two identities that signed up and have not confirmed, one that has.
InitVerify ==
    /\ auth_users =
           {[id |-> UserA, email |-> "a@x.com", password |-> ValidPassword, confirmed |-> FALSE],
            [id |-> UserB, email |-> "b@x.com", password |-> ValidPassword, confirmed |-> FALSE],
            [id |-> UserNone, email |-> "c@x.com", password |-> ValidPassword,
             confirmed |-> TRUE]}
    /\ companies = {[id |-> CompanyA, name |-> "Acme", settings |-> NoSettings],
                    [id |-> CompanyB, name |-> "Acme", settings |-> NoSettings]}
    /\ app_users = {[id |-> UserA + 2, user_id |-> UserA, company_id |-> CompanyA],
                    [id |-> UserB + 2, user_id |-> UserB, company_id |-> CompanyB],
                    [id |-> UserNone + 2, user_id |-> UserNone, company_id |-> NULL]}
    /\ properties = {} /\ property_units = {} /\ technicians = {}
    /\ work_orders = {} /\ emergency_vendors = {}
    /\ nextId = FirstFreeId
    /\ onb = <<>>
    /\ google = <<>>
    /\ owners = {}
    /\ subcontractors = {}
    /\ last = NoOutcome

NextVerify == \E token \in VerifyTokens, env \in VerifyEnvs : verify_email(token, env)

SpecVerify == InitVerify /\ [][NextVerify]_vars
\* ------------------------------------------------ the timezone specification
\* The texts _normalize_timezone is given: nothing, the empty and the blank
\* text, the aliases and the canonical names, two of them with blanks around
\* them, an alias in lower case and names that are in neither table.
ZoneTexts ==
    {Unset, "", "  ", " Pacific (LA) ", " America/Denver ", "pacific (la)",
     "Mars/Olympus", "UTC"}
        \cup DOMAIN TIMEZONE_ALIASES \cup REVERSE_TIMEZONE_ALIASES

\* The fallbacks complete_first_time_onboarding passes (line 284): the zone
\* stored for a company, "America/Detroit" when the row has no such key.
StoredZones == {c.settings.timezone : c \in companies} \cup {"America/Detroit"}

\* Bodies without rows, so that the company can be onboarded again, with the
\* texts an OnboardingRequest lets through (stripped and not empty).
ZoneBodies ==
    [timezone : {z \in ZoneTexts : z = Unset \/ (strip(z) = z /\ z # "")},
     work_hours_start : {HHMM(9, 0)},
     work_hours_end : {HHMM(17, 30)},
     admin : {NoAdmin},
     properties : {<<>>},
     technicians : {<<>>},
     emergency_vendors : {<<>>}]

NextZones ==
    \/ \E r \in Requests, body \in ZoneBodies :
         /\ \A q \in Requests : ~InFlight(q)
         /\ OnboardingRequest(r, UserA, body)
    \/ \E r \in Requests : onb_update_company(r)
    \/ \E r \in Requests : onb_admin(r)
    \/ \E r \in Requests : onb_properties(r)
    \/ \E r \in Requests : onb_technicians(r)
    \/ \E r \in Requests : onb_vendors(r)
    \/ \E u \in {UserA, UserB} : get_onboarding_status(u)

SpecZones == InitOnb /\ [][NextZones]_vars
\* ------------------------------------------------ the work-order listing
\* get_work_orders, work_order_service.py lines 269-347, as GET /work-orders
\* calls it (routes_work_orders.py, lines 27-43) with a limit of at least 1
\* and an offset of at least 0. created_at is the time of the insert: the
\* rows are in creation order when they are in the order of their ids.
MaxPage == 3
PageLimits == 1..MaxPage
PageOffsets == 0..MaxPage
PriorityFilters == {Unset, "routine", "emergency"}

\* order("created_at", desc=True)
RECURSIVE Descending(_)
Descending(rows) ==
    IF rows = {} THEN <<>>
    ELSE LET newest == CHOOSE r \in rows : \A x \in rows : x.id <= r.id
         IN  <<newest>> \o Descending(rows \ {newest})

\* Lines 286-295 and 298-302: eq(company_id), and eq(status), eq(priority)
\* for a filter that is given.
FilteredWorkOrders(c, status_filter, priority_filter) ==
    {r \in work_orders :
        /\ r.company_id = c
        /\ status_filter = Unset \/ r.status = status_filter
        /\ priority_filter = Unset \/ r.priority = priority_filter}

\* Lines 304-310 and 347: the count of the matching rows, and the rows from
\* the offset on, at most limit of them, newest first.
WorkOrderListCountsPage(c, status_filter, priority_filter, limit, offset) ==
    LET ordered == Descending(FilteredWorkOrders(c, status_filter, priority_filter))
        upto == IF offset + limit < Len(ordered) THEN offset + limit ELSE Len(ordered)
    IN  [work_orders |-> SubSeq(ordered, offset + 1, upto),
         total |-> Len(SubSeq(ordered, offset + 1, upto))]

WorkOrderListResponse(c, status_filter, priority_filter, limit, offset) ==
    LET ordered == Descending(FilteredWorkOrders(c, status_filter, priority_filter))
        upto == IF offset + limit < Len(ordered) THEN offset + limit ELSE Len(ordered)
    IN  [work_orders |-> SubSeq(ordered, offset + 1, upto),
         total |-> Cardinality(FilteredWorkOrders(c, status_filter, priority_filter))]

\* GET /work-orders
list_work_orders(u, status_filter, priority_filter, limit, offset) ==
    /\ \E c \in CallerCompanies(u) :
         LET args == [op |-> "list_work_orders", user |-> u, company |-> c,
                      status_filter |-> status_filter,
                      priority_filter |-> priority_filter,
                      limit |-> limit, offset |-> offset]
             found == WorkOrderListResponse(c, status_filter, priority_filter, limit, offset)
         IN  last' = IF c = NULL
                     THEN args @@ [status |-> 400, work_orders |-> <<>>, total |-> 0]
                     ELSE args @@ [status |-> 200, work_orders |-> found.work_orders,
                                   total |-> found.total]
    /\ UNCHANGED <<crudRest, crudTables, nextId>>

\* Three work orders of company A between three of company B, one of them an
\* emergency; company A's user marks them done one by one.
InitList ==
    /\ auth_users =
           {[id |-> UserA, email |-> "a@x.com", password |-> ValidPassword, confirmed |-> TRUE],
            [id |-> UserB, email |-> "b@x.com", password |-> ValidPassword, confirmed |-> TRUE],
            [id |-> UserNone, email |-> "c@x.com", password |-> ValidPassword,
             confirmed |-> TRUE]}
    /\ companies = {[id |-> CompanyA, name |-> "Acme", settings |-> NoSettings],
                    [id |-> CompanyB, name |-> "Acme", settings |-> NoSettings]}
    /\ app_users = {[id |-> UserA + 2, user_id |-> UserA, company_id |-> CompanyA],
                    [id |-> UserB + 2, user_id |-> UserB, company_id |-> CompanyB],
                    [id |-> UserNone + 2, user_id |-> UserNone, company_id |-> NULL]}
    /\ properties = {[id |-> PropertyB, company_id |-> CompanyB, name |-> "n1"],
                     [id |-> FirstFreeId, company_id |-> CompanyA, name |-> "n1"]}
    /\ property_units = {[id |-> UnitB, company_id |-> CompanyB,
                          property_id |-> PropertyB, label |-> "n1"],
                         [id |-> FirstFreeId + 1, company_id |-> CompanyA,
                          property_id |-> FirstFreeId, label |-> "n1"]}
    /\ technicians = {[id |-> TechnicianB, company_id |-> CompanyB,
                       default_property_id |-> PropertyB, first_name |-> "n1"]}
    /\ work_orders =
           {[id |-> IF i = 0 THEN WorkOrderB ELSE FirstFreeId + 2 + i,
             company_id |-> IF i % 2 = 0 THEN CompanyB ELSE CompanyA,
             property_id |-> IF i % 2 = 0 THEN PropertyB ELSE FirstFreeId,
             unit_id |-> IF i % 2 = 0 THEN UnitB ELSE FirstFreeId + 1,
             assigned_technician_id |-> NULL, status |-> "open",
             priority |-> IF i \in {2, 3} THEN "emergency" ELSE "routine"] : i \in 0..5}
    /\ emergency_vendors = {}
    /\ nextId = FirstFreeId + 8
    /\ onb = <<>>
    /\ last = NoOutcome
    /\ google = <<>>
    /\ owners = {}
    /\ subcontractors = {}

NextList ==
    \/ \E u \in {UserA, UserB, UserNone}, status_filter \in WorkOrderStatuses \cup {Unset},
          priority_filter \in PriorityFilters, limit \in PageLimits, offset \in PageOffsets :
           list_work_orders(u, status_filter, priority_filter, limit, offset)
    \/ \E id \in Ids({r \in work_orders : r.company_id = CompanyA}) :
           update_work_order(UserA, id, NULL, "done")

SpecList == InitList /\ [][NextList]_vars
\* -------------------------------------------- the admin-account specification
\* First-time onboarding by company A's user, one request after the other,
\* over the admin accounts a payload can name: none, the caller's own email
\* as stored and in another spelling, the email of another company's user, of
\* an identity without a profile row, and a free one. A request with a
\* technician naming an unknown property fails after its earlier writes.
AdminTexts == {NoAdmin, "a@x.com", " A@x.com ", "b@x.com", "g@x.com", AdminEmail}

AdminPayloads ==
    [timezone : {"Eastern (Detroit)"},
     work_hours_start : {HHMM(9, 0)},
     work_hours_end : {HHMM(17, 30)},
     admin : AdminTexts,
     properties : {<<>>, <<"p1">>},
     technicians : {<<>>, <<NameRef("q1")>>},
     emergency_vendors : {<<>>}]

NextAdmin ==
    \/ \E r \in Requests, payload \in AdminPayloads :
         /\ \A q \in Requests : ~InFlight(q)
         /\ onb_start(r, UserA, payload)
    \/ \E r \in Requests : onb_update_company(r)
    \/ \E r \in Requests : onb_admin(r)
    \/ \E r \in Requests : onb_properties(r)
    \/ \E r \in Requests : onb_technicians(r)
    \/ \E r \in Requests : onb_vendors(r)

SpecAdmin == InitGuards /\ [][NextAdmin]_vars

\* The same requests against a credential store that holds more identities
\* than one page of list_users shows. The ids of the further identities lie
\* above the ids the run allocates.
CrowdBase == CompanyGone

Crowd ==
    {[id |-> CrowdBase + i, email |-> "u" \o ToString(i) \o "@x.com",
      password |-> ValidPassword, confirmed |-> TRUE] : i \in 1..PerPage}

InitCrowd == InitGuardsWith(GuardUsers \cup Crowd)

SpecCrowd == InitCrowd /\ [][NextAdmin]_vars
\* ------------------------------------------------- the caller of a request
\* deps.py. A bearer token as a client presents it: an access token or a
\* refresh token as signin_user mints them for an identity, current or past
\* its expiry, an access token without a subject, a session token of the
\* credential store, or text that does not decode.
GateTokens ==
    {[claims |-> create_access_token(u.id, u.email), condition |-> c] :
        u \in auth_users, c \in {"valid", "expired"}}
    \cup {[claims |-> create_refresh_token(u.id), condition |-> "valid"] : u \in auth_users}
    \cup {[claims |-> [type |-> "session", sub |-> u.id], condition |-> "valid"] :
             u \in auth_users}
    \cup {[claims |-> create_access_token(NULL, ""), condition |-> "valid"],
          [claims |-> NoToken, condition |-> "malformed"]}

\* What the outside answers while the caller is resolved: how verify_token
\* fails, what admin.get_user_by_id answers, what auth.get_user answers (a
\* user only for a session token of the store). An answer that is not read
\* takes one value.
GateReplies(token) ==
    LET verified == verify_token(token, "access")
        read == verified.ok /\ verified.payload.sub # NULL
    IN  {e \in [failure : IF verified.ok THEN {"http_401"} ELSE VerifyFailures,
                lookup : IF read THEN {"user", "nouser", "raise"} ELSE {"raise"},
                session : IF token.claims.type = "session"
                          THEN {"user", "nouser", "raise"}
                          ELSE {"nouser", "raise"}] :
            ((~verified.ok /\ e.failure = "error") \/ (read /\ e.lookup = "user"))
                => e.session = "raise"}

Caller(status, detail, user_id) == [status |-> status, detail |-> detail, user_id |-> user_id]

\* get_current_user, lines 19-75: the identity of the token's subject as the
\* credential store holds it now; after an HTTPException on the way, the
\* identity the store names for the token; else 401. Another exception of
\* verify_token is not caught.
get_current_user(token, e) ==
    LET verified == verify_token(token, "access")
        user_id == verified.payload.sub
        known == \E u \in auth_users : u.id = token.claims.sub
    IN  IF ~verified.ok /\ e.failure = "error"
        THEN Caller(500, "Internal Server Error", NULL)
        ELSE IF verified.ok /\ user_id # NULL /\ e.lookup = "user" /\ known
        THEN Caller(200, "", user_id)
        ELSE IF token.claims.type = "session" /\ e.session = "user" /\ known
        THEN Caller(200, "", token.claims.sub)
        ELSE Caller(401, "Could not validate credentials", NULL)

\* get_current_active_user, lines 77-84.
get_current_active_user_unchecked(token, e) ==
    get_current_user(token, e)

get_current_active_user(token, e) ==
    LET current_user == get_current_user(token, e)
    IN  IF current_user.status # 200 THEN current_user
        ELSE IF \E u \in auth_users : u.id = current_user.user_id /\ ~u.confirmed
        THEN Caller(403, "Email not verified", current_user.user_id)
        ELSE current_user

\* A request that the dependency answers: the handler is not called.
Rejected(caller) ==
    /\ last' = [op |-> "get_current_active_user", status |-> caller.status,
                detail |-> caller.detail, user_id |-> caller.user_id]
    /\ UNCHANGED <<authTables, crudTables, emergency_vendors, nextId, onb, google,
                   roleTables>>

\* The number of properties the requests of the gate specification create.
MaxGateRows == 1

\* GET /properties and POST /properties (routes_properties.py, lines 53-54
\* and 77-80) with their dependency.
GET_properties(token, e) ==
    LET caller == get_current_active_user(token, e)
    IN  IF caller.status = 200 THEN get_properties(caller.user_id)
        ELSE Rejected(caller)

POST_properties(token, e, name) ==
    LET caller == get_current_active_user(token, e)
    IN  IF caller.status = 200
        THEN /\ Cardinality(properties) < MaxGateRows
             /\ create_property(caller.user_id, name)
        ELSE Rejected(caller)

\* ---------------------------------------------------- the gate specification
\* Signup, signin, both email verifications and requests for properties, in
\* any order, from an empty store. verify_email runs with its endpoints all
\* up or all down and with or without the service key.
GateVerifyTokens ==
    {[blank |-> FALSE, kind |-> "link", user |-> id] : id \in Ids(auth_users)}
    \cup {[blank |-> FALSE, kind |-> "junk", user |-> NULL]}

GateVerifyEnvs ==
    {[direct |-> d, hash |-> d, raw |-> d, key |-> k,
      listing |-> Listed(Ids(auth_users), "up"),
      confirm |-> [id \in Unconfirmed |-> "200"]] : d \in {"up", "raise"}, k \in BOOLEAN}

GateEmails == {"a@x.com"}

NextGate ==
    \/ \E email \in GateEmails, name \in CompanyNames : signup_user(email, ValidPassword, name)
    \/ \E email \in GateEmails : signin_user(email, ValidPassword)
    \/ \E email \in GateEmails : verify_email_with_otp(email)
    \/ \E token \in GateVerifyTokens, env \in GateVerifyEnvs : verify_email(token, env)
    \/ \E token \in GateTokens : \E e \in GateReplies(token) : GET_properties(token, e)
    \/ \E token \in GateTokens : \E e \in GateReplies(token), name \in CreateNames :
           POST_properties(token, e, name)

SpecGate == InitEmpty /\ [][NextGate]_vars
\* ================================================================ claims

\* A step is a successful signup_user call.
SignupSucceeded == last.op = "signup_user" /\ last.error = "none"

\* C2: whenever signup_user returns successfully, that call inserted exactly
\* one companies row, exactly one app_users row exists for the new identity,
\* that row's company_id is the new company's id, and that id is the
\* company_id returned.
C2_SignupLinksOneCompanyAndProfile ==
    [][ (last'.op = "signup_user" /\ last'.error = "none") =>
          LET r == last'.result IN
          /\ r.id \in Ids(auth_users') \ Ids(auth_users)
          /\ companies \subseteq companies'
          /\ Cardinality(companies' \ companies) = 1
          /\ Ids(companies' \ companies) = {r.company_id}
          /\ r.company_id \notin Ids(companies)
          /\ Cardinality({row \in app_users' : row.user_id = r.id}) = 1
          /\ \A row \in app_users' : row.user_id = r.id => row.company_id = r.company_id
      ]_vars

\* A successful signup whose profile row the call itself inserted.
C2_Witness ==
    /\ SignupSucceeded
    /\ last.made.profile # NULL
    /\ last.result.company_id \in Ids(companies)
    /\ \E row \in app_users : /\ row.id = last.made.profile
                              /\ row.user_id = last.result.id
                              /\ row.company_id = last.result.company_id

\* A signup_user call that created the identity and then failed.
SignupFailedAfterIdentity ==
    last.op = "signup_user" /\ last.error = "Exception" /\ last.made.user # NULL

InCalls(name) == \E i \in 1..Len(last.calls) : last.calls[i] = name

\* C3 as stated: after a signup_user call that created the identity and then
\* failed, no identity, no company and no app_users row created by that call
\* remains, and the company deletion was attempted.
C3_NothingRemainsAfterFailedSignup ==
    SignupFailedAfterIdentity =>
        /\ last.made.user \notin Ids(auth_users)
        /\ last.made.company \notin Ids(companies)
        /\ ~\E row \in app_users : row.user_id = last.made.user /\ row.company_id # NULL
        /\ last.made.company # NULL => InCalls("companies.delete")

\* C3, amended: after a signup_user call that created the identity and then
\* failed, the deletion of the identity was attempted and, if a company was
\* created, so was the deletion of the company, whatever the first deletion
\* answered; the identity remains only if its deletion failed, the company
\* remains only if its deletion failed, and no app_users row links the
\* identity to a company.
C3_FailedSignupAttemptsBothDeletes ==
    SignupFailedAfterIdentity =>
        /\ InCalls("delete_user")
        /\ last.made.company # NULL => InCalls("companies.delete")
        /\ last.made.user \in Ids(auth_users) <=> last.replies.delete_user = "raise"
        /\ last.made.company # NULL =>
             (last.made.company \in Ids(companies)
                <=> last.replies.delete_company = "raise")
        /\ ~\E row \in app_users : row.user_id = last.made.user /\ row.company_id # NULL

\* The identity's deletion failed, and the company was deleted all the same.
C3_Witness ==
    /\ SignupFailedAfterIdentity
    /\ last.replies.delete_user = "raise"
    /\ last.made.user \in Ids(auth_users)
    /\ last.made.company # NULL
    /\ last.made.company \notin Ids(companies)

\* The strength policy as the error message of signup_user words it: 8 to 64
\* characters with a lowercase letter, an uppercase letter, a digit and a
\* symbol of the fixed set.
MeetsPolicy(password) ==
    /\ RunsLen(password) >= MinPasswordLength
    /\ RunsLen(password) <= MaxPasswordLength
    /\ \A c \in AllRequired :
         \E i \in 1..Len(password) : password[i].c = c /\ password[i].n > 0

\* C4: signup_user rejects every password that violates the policy with a
\* validation error before any store call is made, creating nothing, and
\* lets every password that satisfies the policy pass the check.
C4_PolicyDecidesSignup ==
    last.op = "signup_user" =>
        /\ ~MeetsPolicy(last.password) =>
              /\ last.error = "ValueError"
              /\ last.calls = <<>>
              /\ last.made.user = NULL /\ last.made.company = NULL
        /\ MeetsPolicy(last.password) => last.error # "ValueError"

\* C7: a POST /auth/signup with a free email and a policy-conforming
\* password, every store call succeeding, answers 200 with the identity id,
\* the email, confirmed = false and the id of the new company.
C7_SignupRouteReturnsCompany ==
    (/\ last.op = "POST /auth/signup"
     /\ last.valid /\ ~last.taken
     /\ AllCallsSucceed(last.replies)) =>
        /\ last.status = 200
        /\ last.result.id \in Ids(auth_users)
        /\ last.result.email = last.email
        /\ ~last.result.confirmed
        /\ last.result.company_id \in Ids(companies)

\* A signin_user call for which the credential store opened a session.
SigninAccepted == last.op = "signin_user" /\ last.reply.kind = "session"

\* C8: a signin_user call with the credentials of an identity, accepted by
\* the credential store, succeeds whether or not the email is confirmed; it
\* returns an access and a refresh token for that identity and reports
\* email_confirmed as the identity has it (false before verification).
C8_SigninSucceedsBeforeVerification ==
    SigninAccepted =>
        \E u \in auth_users :
            /\ u.email = last.email
            /\ last.status = 200
            /\ last.result.user_id = u.id
            /\ last.result.access_token.type = "access"
            /\ last.result.access_token.sub = u.id
            /\ last.result.refresh_token.type = "refresh"
            /\ last.result.refresh_token.sub = u.id
            /\ last.result.email_confirmed = u.confirmed

\* A sign-in after a successful signup and before any verification.
C8_Witness ==
    /\ SigninAccepted
    /\ last.status = 200
    /\ ~last.result.email_confirmed
    /\ last.result.company_id \in Ids(companies)
    /\ \E u \in auth_users : u.id = last.result.user_id /\ ~u.confirmed

\* A signup_user call whose verification-code send failed.
SignupOtpFailed ==
    last.op = "signup_user" /\ last.replies.otp \in OtpReplies \ {"sent"}

\* C9: a failure of the verification-code send (a non-2xx reply, with or
\* without a failing fallback resend, or an exception) never fails
\* signup_user and never triggers the compensating deletes: the identity,
\* the company and the app_users row remain and the result is returned.
C9_OtpFailureKeepsSignup ==
    SignupOtpFailed =>
        /\ last.error = "none"
        /\ ~InCalls("delete_user") /\ ~InCalls("companies.delete")
        /\ last.result.id \in Ids(auth_users)
        /\ last.result.company_id \in Ids(companies)
        /\ \E row \in app_users : /\ row.user_id = last.result.id
                                  /\ row.company_id = last.result.company_id

\* The send raised, and the signup stands.
C9_Witness ==
    /\ SignupOtpFailed
    /\ last.replies.otp = "raise"
    /\ last.error = "none"
    /\ last.result.id \in Ids(auth_users)

\* ---- C1, C10: tenant isolation (SpecCrud)
\* The companies the callers of the run act for.
ActingCompanies == UNION {CallerCompanies(u) : u \in Callers}

\* The ids of the rows of a table that another company owns.
ForeignIds(table, c) == {r.id : r \in {x \in table : x.company_id # c}}

PropertyRefs == Ids(properties) \cup {NULL, nextId}
TechnicianRefs == Ids(technicians) \cup {NULL, EmptyId, nextId}
UnitRefs == Ids(property_units) \cup {NULL, nextId}
NameArgs == UpdateNames \cup {Unset}
StatusArgs == WorkOrderStatuses \cup {Unset}

\* The rows of a response are rows of company c.
OwnRows(c, r) == \A row \in r.rows : row.company_id = c

\* Every response a handler gives in the current state carries rows of the
\* caller's company only.
ReturnsOwnRowsOnly ==
    \A c \in ActingCompanies :
        /\ OwnRows(c, get_properties_resp(c))
        /\ OwnRows(c, get_technicians_resp(c))
        /\ OwnRows(c, get_work_order_options_resp(c))
        /\ \A n \in CreateNames : OwnRows(c, create_property_resp(c, n))
        /\ \A id \in PropertyRefs :
               /\ OwnRows(c, get_units_resp(c, id))
               /\ \A n \in NameArgs : OwnRows(c, update_property_resp(c, id, n))
               /\ \A n \in CreateNames :
                      /\ OwnRows(c, create_unit_resp(c, id, n))
                      /\ OwnRows(c, create_technician_resp(c, id, n))
               /\ \A u \in UnitRefs, l \in CreateNames \cup {NoLabel},
                     t \in TechnicianRefs \ {EmptyId} :
                      OwnRows(c, create_work_order_resp(c, id, u, l, t))
        /\ \A id \in UnitRefs, n \in NameArgs : OwnRows(c, update_unit_resp(c, id, n))
        /\ \A id \in TechnicianRefs, pr \in PropertyRefs, n \in NameArgs :
               OwnRows(c, update_technician_resp(c, id, pr, n))
        /\ \A st \in StatusArgs : OwnRows(c, get_work_orders_resp(c, st))
        /\ \A id \in Ids(work_orders) \cup {nextId}, t \in TechnicianRefs, st \in StatusArgs :
               OwnRows(c, update_work_order_resp(c, id, t, st))

ForeignIdIsNotFound ==
    \A c \in ActingCompanies \ {NULL} :
        /\ \A id \in ForeignIds(properties, c) :
               /\ delete_property_resp(c, id).status = 404
               /\ \A n \in NameArgs : update_property_resp(c, id, n).status = 404
        /\ \A id \in ForeignIds(property_units, c) :
               /\ delete_unit_resp(c, id).status = 404
               /\ \A n \in NameArgs : update_unit_resp(c, id, n).status = 404
        /\ \A id \in ForeignIds(technicians, c) :
               /\ delete_technician_resp(c, id).status = 404
               /\ \A pr \in PropertyRefs, n \in NameArgs :
                      update_technician_resp(c, id, pr, n).status = 404
        /\ \A id \in ForeignIds(work_orders, c) :
               \A t \in TechnicianRefs, st \in StatusArgs :
                   update_work_order_resp(c, id, t, st).status = 404

OtherRows(table, c) == {r \in table : r.company_id # c}

CrudOps ==
    {"get_properties", "create_property", "update_property", "delete_property",
     "get_units", "create_unit", "update_unit", "delete_unit",
     "get_technicians", "create_technician", "update_technician", "delete_technician",
     "get_work_order_options", "create_work_order", "get_work_orders", "update_work_order"}

LeavesOtherRows ==
    last'.op \in CrudOps =>
        /\ OtherRows(properties', last'.company) = OtherRows(properties, last'.company)
        /\ OtherRows(property_units', last'.company) = OtherRows(property_units, last'.company)
        /\ OtherRows(technicians', last'.company) = OtherRows(technicians, last'.company)
        /\ OtherRows(work_orders', last'.company) = OtherRows(work_orders, last'.company)

\* C1: whatever sequence of property, unit, technician and work-order requests
\* a user of company A issues, no response carries a row of another company,
\* no request changes or removes a row of another company, and an update or a
\* delete addressed to the id of another company's row is answered 404.
C1_TenantIsolation ==
    /\ [](ReturnsOwnRowsOnly /\ ForeignIdIsNotFound)
    /\ [][LeavesOtherRows]_vars

\* Company A's user, owning a property of its own, has asked to delete
\* company B's property and has been answered 404.
C1_Witness ==
    /\ last.op = "delete_property"
    /\ last.company = CompanyA
    /\ last.foreign
    /\ last.status = 404
    /\ \E r \in properties : r.company_id = CompanyA
    /\ \E r \in properties : r.company_id = CompanyB

Outcome(r) == <<r.status, r.detail>>

\* C10: for every update, delete, nested read and foreign-key reference, the
\* status code and detail answered for the id of another company's row are
\* those answered for an id that no row has.
C10_ForeignIdAnswersAsMissingId ==
    \A c \in ActingCompanies :
        LET missing == nextId IN
        /\ \A f \in ForeignIds(properties, c) :
               /\ Outcome(delete_property_resp(c, f)) = Outcome(delete_property_resp(c, missing))
               /\ Outcome(get_units_resp(c, f)) = Outcome(get_units_resp(c, missing))
               /\ \A n \in NameArgs :
                      Outcome(update_property_resp(c, f, n))
                          = Outcome(update_property_resp(c, missing, n))
               /\ \A n \in CreateNames :
                      /\ Outcome(create_unit_resp(c, f, n))
                             = Outcome(create_unit_resp(c, missing, n))
                      /\ Outcome(create_technician_resp(c, f, n))
                             = Outcome(create_technician_resp(c, missing, n))
               /\ \A id \in TechnicianRefs, n \in NameArgs :
                      Outcome(update_technician_resp(c, id, f, n))
                          = Outcome(update_technician_resp(c, id, missing, n))
               /\ \A u \in UnitRefs, l \in CreateNames \cup {NoLabel},
                     t \in TechnicianRefs \ {EmptyId} :
                      Outcome(create_work_order_resp(c, f, u, l, t))
                          = Outcome(create_work_order_resp(c, missing, u, l, t))
        /\ \A f \in ForeignIds(property_units, c) :
               /\ Outcome(delete_unit_resp(c, f)) = Outcome(delete_unit_resp(c, missing))
               /\ \A n \in NameArgs :
                      Outcome(update_unit_resp(c, f, n)) = Outcome(update_unit_resp(c, missing, n))
               /\ \A pr \in PropertyRefs, l \in CreateNames \cup {NoLabel},
                     t \in TechnicianRefs \ {EmptyId} :
                      Outcome(create_work_order_resp(c, pr, f, l, t))
                          = Outcome(create_work_order_resp(c, pr, missing, l, t))
        /\ \A f \in ForeignIds(technicians, c) :
               /\ Outcome(delete_technician_resp(c, f))
                      = Outcome(delete_technician_resp(c, missing))
               /\ \A pr \in PropertyRefs, n \in NameArgs :
                      Outcome(update_technician_resp(c, f, pr, n))
                          = Outcome(update_technician_resp(c, missing, pr, n))
               /\ \A pr \in PropertyRefs, u \in UnitRefs, l \in CreateNames \cup {NoLabel} :
                      Outcome(create_work_order_resp(c, pr, u, l, f))
                          = Outcome(create_work_order_resp(c, pr, u, l, missing))
               /\ \A id \in Ids(work_orders) \cup {nextId}, st \in StatusArgs :
                      Outcome(update_work_order_resp(c, id, f, st))
                          = Outcome(update_work_order_resp(c, id, missing, st))
        /\ \A f \in ForeignIds(work_orders, c) :
               \A t \in TechnicianRefs, st \in StatusArgs :
                   Outcome(update_work_order_resp(c, f, t, st))
                       = Outcome(update_work_order_resp(c, missing, t, st))

\* Company A's user, owning a property, has asked for a work order on it that
\* names a unit or a technician of company B, and has been answered 422.
C10_Witness ==
    /\ last.op = "create_work_order"
    /\ last.company = CompanyA
    /\ last.foreign
    /\ last.status = 422

\* ---- C5, C6: first-time onboarding runs once (SpecOnb)
\* C5: a first-time onboarding request that arrives after a request of the
\* same company has been answered with success is answered 409 and inserts no
\* property, technician or emergency vendor, whatever the first payload was.
C5_SecondOnboardingConflicts ==
    \A r \in Requests :
        onb[r].pc = "done" /\ onb[r].after =>
            onb[r].status = 409 /\ onb[r].inserted = {}

\* C6: of two first-time onboarding requests of one company in flight at the
\* same time, at most one is answered with success and at most one has
\* inserted seed rows.
C6_ConcurrentOnboardingRunsOnce ==
    \A r \in Requests : \A q \in onb[r].overlapped :
        onb[q].company_id = onb[r].company_id =>
            /\ ~(onb[r].status = 200 /\ onb[q].status = 200)
            /\ ~(onb[r].inserted # {} /\ onb[q].inserted # {})

\* C11: after the creates and updates that store a reference (first-time
\* onboarding, create and update technician, create unit, create and update
\* work order), every stored reference stays inside one company: a unit's
\* property is a property of the unit's company; a technician's default
\* property, when set and present, is a property of the technician's company;
\* a work order's property is a property of its company, its unit, when set,
\* is a unit of that company and of that property, and its assigned
\* technician, when set, is a technician of its company.
C11_ReferencesStayInTenant ==
    /\ \A u \in property_units : RowInCompany(properties, u.property_id, u.company_id)
    /\ \A t \in technicians :
           \A p \in properties : p.id = t.default_property_id => p.company_id = t.company_id
    /\ \A w \in work_orders :
           /\ RowInCompany(properties, w.property_id, w.company_id)
           /\ w.unit_id # NULL =>
                  \E u \in property_units : /\ u.id = w.unit_id
                                            /\ u.company_id = w.company_id
                                            /\ u.property_id = w.property_id
           /\ w.assigned_technician_id # NULL =>
                  RowInCompany(technicians, w.assigned_technician_id, w.company_id)

\* Company A has a work order with a unit and an assigned technician, and a
\* technician with a default property, beside company B's rows.
C11_Witness ==
    /\ \E w \in work_orders : /\ w.company_id = CompanyA
                              /\ w.unit_id # NULL
                              /\ w.assigned_technician_id # NULL
    /\ \E t \in technicians : t.company_id = CompanyA /\ t.default_property_id # NULL
    /\ \E w \in work_orders : w.company_id = CompanyB

\* C12: when a create_work_order call with a unit_label and no unit_id has
\* inserted a unit and stored its work order on it, a second call for the same
\* property with the same label is answered with success, inserts no unit and
\* resolves to the id of that unit.
C12_SameLabelResolvesToSameUnit ==
    [][ (last'.op = "create_work_order" /\ Ok(last'.status)) =>
          \A u \in property_units' \ property_units :
              /\ \E w \in work_orders' \ work_orders : w.unit_id = u.id
              /\ ~UpsertInserts(u.company_id, u.property_id, NULL, u.label)'
              /\ UpsertUnitIds(u.company_id, u.property_id, NULL, u.label)' = {u.id}
              /\ Ok(create_work_order_resp(u.company_id, u.property_id, NULL,
                                           u.label, NULL).status)'
      ]_vars

\* Two work orders created by label are on the one unit of that label, the
\* second created by the last call.
C12_Witness ==
    /\ last.op = "create_work_order"
    /\ Ok(last.status)
    /\ \E u \in property_units :
           /\ \A v \in property_units : v.label = u.label => v = u
           /\ \E w1, w2 \in work_orders :
                  /\ w1.id = u.id + 1
                  /\ w2.id = nextId - 1
                  /\ w1.id < w2.id
                  /\ w1.unit_id = u.id
                  /\ w2.unit_id = u.id
           /\ Cardinality(property_units) = 1

\* C13: no property has two unit rows with the same label.
C13_UnitLabelsUniqueInProperty ==
    \A u, v \in property_units :
        (u.property_id = v.property_id /\ u.label = v.label) => u.id = v.id

\* The rows of a table other than row id are the same before and after, and
\* no row is added or removed.
OnlyRowChanges(before, after, id) ==
    /\ {r \in before : r.id # id} = {r \in after : r.id # id}
    /\ Ids(before) = Ids(after)

\* The caller has a company and row id of the table is a row of it.
OwnRow(u, table, id) ==
    \E c \in CallerCompanies(u) : c # NULL /\ RowInCompany(table, id, c)

NoFields == Resp(400, "No fields to update", {})

\* What the claim says of an update_property(u, id, name) step.
PropertyUpdateAsClaimed(u, id, name) ==
    /\ UNCHANGED <<crudRest, property_units, technicians, work_orders, nextId>>
    /\ (OwnRow(u, properties, id) /\ name = Unset) =>
           /\ last'.status = NoFields.status
           /\ \A c \in CallerCompanies(u) : update_property_resp(c, id, name) = NoFields
    /\ ~Ok(last'.status) => properties' = properties
    /\ Ok(last'.status) =>
           /\ name # Unset
           /\ OnlyRowChanges(properties, properties', id)
           /\ \A r \in properties : r.id = id => [r EXCEPT !.name = name] \in properties'

\* What the claim says of an update_unit(u, id, label) step.
UnitUpdateAsClaimed(u, id, label) ==
    /\ UNCHANGED <<crudRest, properties, technicians, work_orders, nextId>>
    /\ (OwnRow(u, property_units, id) /\ label = Unset) =>
           /\ last'.status = NoFields.status
           /\ \A c \in CallerCompanies(u) : update_unit_resp(c, id, label) = NoFields
    /\ ~Ok(last'.status) => property_units' = property_units
    /\ Ok(last'.status) =>
           /\ label # Unset
           /\ OnlyRowChanges(property_units, property_units', id)
           /\ \A r \in property_units :
                  r.id = id => [r EXCEPT !.label = label] \in property_units'

\* What the claim says of an update_technician(u, id, p, name) step.
TechnicianUpdateAsClaimed(u, id, p, name) ==
    /\ UNCHANGED <<crudRest, properties, property_units, work_orders, nextId>>
    /\ (OwnRow(u, technicians, id) /\ p = NULL /\ name = Unset) =>
           /\ last'.status = NoFields.status
           /\ \A c \in CallerCompanies(u) : update_technician_resp(c, id, p, name) = NoFields
    /\ ~Ok(last'.status) => technicians' = technicians
    /\ Ok(last'.status) =>
           /\ p # NULL \/ name # Unset
           /\ OnlyRowChanges(technicians, technicians', id)
           /\ \A r \in technicians :
                  r.id = id =>
                      [id |-> r.id, company_id |-> r.company_id,
                       default_property_id |->
                           IF p # NULL THEN p ELSE r.default_property_id,
                       first_name |-> IF name # Unset THEN name ELSE r.first_name]
                          \in technicians'

\* What the claim says of an update_work_order(u, id, t, status) step; an
\* assigned technician given as "" is a field provided, written as none.
WorkOrderUpdateAsClaimed(u, id, t, status) ==
    /\ UNCHANGED <<crudRest, properties, property_units, technicians, nextId>>
    /\ (OwnRow(u, work_orders, id) /\ t = NULL /\ status = Unset) =>
           /\ last'.status = NoFields.status
           /\ \A c \in CallerCompanies(u) : update_work_order_resp(c, id, t, status) = NoFields
    /\ ~Ok(last'.status) => work_orders' = work_orders
    /\ Ok(last'.status) =>
           /\ t # NULL \/ status # Unset
           /\ OnlyRowChanges(work_orders, work_orders', id)
           /\ \A r \in work_orders :
                  r.id = id =>
                      [id |-> r.id, company_id |-> r.company_id,
                       property_id |-> r.property_id, unit_id |-> r.unit_id,
                       assigned_technician_id |->
                           IF t = NULL THEN r.assigned_technician_id
                           ELSE IF t = EmptyId THEN NULL ELSE t,
                       status |-> IF status # Unset THEN status ELSE r.status,
                       priority |-> r.priority]
                          \in work_orders'

\* C14: an update of a property, unit, technician or work order writes
\* exactly the fields the request provides, on the row addressed, and leaves
\* every other field of the row, every other row and every other table as
\* they were; a request that provides no field is answered 400 'No fields to
\* update' and writes nothing, and so does every update that fails.
C14_UpdateWritesGivenFieldsOnly ==
    [][ /\ last'.op = "update_property" =>
               \A u \in Callers, id \in Ids(properties) \cup {nextId}, name \in NameArgs :
                   update_property(u, id, name) => PropertyUpdateAsClaimed(u, id, name)
        /\ last'.op = "update_unit" =>
               \A u \in Callers, id \in Ids(property_units) \cup {nextId}, label \in NameArgs :
                   update_unit(u, id, label) => UnitUpdateAsClaimed(u, id, label)
        /\ last'.op = "update_technician" =>
               \A u \in Callers, id \in Ids(technicians) \cup {nextId},
                  p \in PropertyRefs, name \in NameArgs :
                   update_technician(u, id, p, name) =>
                       TechnicianUpdateAsClaimed(u, id, p, name)
        /\ last'.op = "update_work_order" =>
               \A u \in Callers, id \in Ids(work_orders) \cup {nextId},
                  t \in TechnicianRefs, status \in StatusArgs :
                   update_work_order(u, id, t, status) =>
                       WorkOrderUpdateAsClaimed(u, id, t, status)
      ]_vars

\* Company A's user has renamed a technician that has a default property: the
\* property is still the technician's.
C14_Witness ==
    /\ last.op = "update_technician"
    /\ Ok(last.status)
    /\ \E t \in technicians : /\ t.company_id = CompanyA
                              /\ t.first_name \in UpdateNames
                              /\ t.default_property_id # NULL

\* A work-hour text written as two-digit fields, `fields` of them, the hour
\* within 00-23 and the others within 00-59.
WrittenInFull(text, fields) ==
    /\ Len(text) = fields
    /\ \A i \in DOMAIN text : text[i].w = 2
    /\ Len(text) > 0 => text[1].v \in 0..23
    /\ \A i \in DOMAIN text : i > 1 => text[i].v \in 0..59

Seconds00 == <<TimeField(2, 0)>>

\* C15 as stated: a request is refused for its work_hours_start only when the
\* text is neither HH:MM nor HH:MM:SS.
C15_BothTimeFormsAccepted ==
    last.op = "OnboardingRequest" =>
        /\ ~WrittenInFull(last.work_hours_start, 2)
        /\ ~WrittenInFull(last.work_hours_start, 3)

\* C15, amended: a first-time onboarding request is accepted exactly when its
\* work_hours_start is HH:MM (HH:MM:SS and every other text are refused by the
\* request model); the company update stores the text with seconds 00, and
\* the status query renders the stored value as the HH:MM submitted. Taken by
\* themselves, _normalize_time maps "09:00" and "09:00:00" to "09:00:00" and
\* _format_time_for_response renders that as "09:00".
C15_HourMinuteStoredWithSeconds ==
    /\ [](/\ last.op = "OnboardingRequest" => ~WrittenInFull(last.work_hours_start, 2)
          /\ \A r \in DOMAIN onb :
                 InFlight(r) => WrittenInFull(onb[r].payload.work_hours_start, 2)
          /\ normalize_time(HHMM(9, 0)) = [ok |-> TRUE, text |-> HHMMSS(9, 0, 0)]
          /\ normalize_time(HHMMSS(9, 0, 0)) = normalize_time(HHMM(9, 0))
          /\ format_time_for_response(HHMMSS(9, 0, 0)) = HHMM(9, 0))
    /\ [][ /\ \A r \in DOMAIN onb :
                   (onb[r].pc = "company" /\ onb'[r].pc = "admin") =>
                       \A x \in companies' :
                           x.id = onb[r].company_id =>
                               x.settings.work_hours_start =
                                   onb[r].payload.work_hours_start \o Seconds00
           /\ \A u \in {UserA, UserB, UserNone} :
                  (get_onboarding_status(u) /\ last'.status = 200) =>
                      \A x \in companies :
                          (x.id = last'.company_id /\ x.settings.work_hours_start # <<>>) =>
                              x.settings.work_hours_start =
                                  last'.work_hours_start \o Seconds00 ]_vars

\* The status query of company A's user after an accepted request with
\* "09:00": "09:00:00" is stored and "09:00" is rendered.
C15_Witness ==
    /\ \A r \in DOMAIN onb : ~InFlight(r)
    /\ last.op = "get_onboarding_status"
    /\ last.status = 200
    /\ last.company_id = CompanyA
    /\ last.work_hours_start = HHMM(9, 0)
    /\ \E x \in companies : x.id = CompanyA /\ x.settings.work_hours_start = HHMMSS(9, 0, 0)

\* The predicate of C16: the company has a row in properties, technicians or
\* emergency_vendors.
AnySetupRow(company_id) ==
    \E x \in properties \cup technicians \cup emergency_vendors : x.company_id = company_id

\* The company of a user's profile row, when the row names one.
ProfileCompanies(user_id) ==
    {au.company_id : au \in {x \in app_users : x.user_id = user_id}} \ {NULL}

\* C16: the is_onboarded flag of a sign-in, the onboarding_completed flag of
\* a status query and the conflict guard of first-time onboarding are each
\* true exactly when the caller's company has a row in properties, technicians
\* or emergency_vendors.
C16_ThreeFlagsAgree ==
    [][ /\ \A email \in {"a@x.com", "b@x.com", "c@x.com"} :
               (signin_user(email, ValidPassword) /\ last'.status = 200) =>
                   (last'.result.is_onboarded <=>
                        \E c \in ProfileCompanies(last'.result.user_id) : AnySetupRow(c))
        /\ \A u \in {UserA, UserB, UserNone} :
               (get_onboarding_status(u) /\ last'.status = 200) =>
                   (last'.onboarding_completed <=> AnySetupRow(last'.company_id))
        /\ \A r \in DOMAIN onb :
               (onb[r].pc = "idle" /\ onb'[r].pc # "idle" /\ onb'[r].company_id # NULL
                    /\ \E x \in companies : x.id = onb'[r].company_id) =>
                   (onb'[r].status = 409 <=> AnySetupRow(onb'[r].company_id)) ]_vars

\* C17: a first-time onboarding request whose preconditions fail is answered
\* without a write: no profile row, a profile row without company_id and a
\* missing company row give 400, a company that has a property, technician or
\* emergency vendor gives 409; the answer leaves every table as it was, and an
\* answered request writes nothing afterwards.
C17_FailedPreconditionWritesNothing ==
    [][ \A r \in DOMAIN onb :
          /\ (onb[r].pc = "idle" /\ onb'[r].pc # "idle") =>
                LET u == onb'[r].user
                    profile == {x \in app_users : x.user_id = u}
                    c == onb'[r].company_id
                    fails == \/ profile = {}
                             \/ \E x \in profile : x.company_id = NULL
                             \/ ~\E x \in companies : x.id = c
                             \/ AnySetupRow(c)
                IN  /\ profile = {} =>
                        onb'[r].pc = "done" /\ onb'[r].status = 400
                    /\ (profile # {} /\ c = NULL) =>
                        onb'[r].pc = "done" /\ onb'[r].status = 400
                    /\ (profile # {} /\ c # NULL /\ ~\E x \in companies : x.id = c) =>
                        onb'[r].pc = "done" /\ onb'[r].status = 400
                    /\ (profile # {} /\ c # NULL /\ (\E x \in companies : x.id = c)
                            /\ AnySetupRow(c)) =>
                        onb'[r].pc = "done" /\ onb'[r].status = 409
                    /\ fails =>
                        /\ UNCHANGED <<authTables, crudTables, emergency_vendors, nextId>>
                        /\ onb'[r].inserted = {} /\ ~onb'[r].admin_created
          /\ onb[r].pc = "done" => onb'[r] = onb[r] ]_vars

\* Both request slots answered on a failed precondition, one with 409 for
\* company B, which has rows, and one with 400 for the user whose company row
\* is gone, with every table as it was at the start.
C17_Witness ==
    /\ \E r \in DOMAIN onb :
         onb[r].pc = "done" /\ onb[r].user = UserB /\ onb[r].status = 409
    /\ \E r \in DOMAIN onb :
         /\ onb[r].pc = "done" /\ onb[r].user = UserOrphan /\ onb[r].status = 400
         /\ onb[r].detail = "Company record missing. Contact support."
    /\ companies = {[id |-> CompanyA, name |-> "Acme", settings |-> NoSettings],
                    [id |-> CompanyB, name |-> "Acme", settings |-> NoSettings]}
    /\ Ids(properties) = {PropertyB} /\ Ids(technicians) = {TechnicianB}
    /\ emergency_vendors = {} /\ nextId = FirstFreeId

\* A token refresh_access_token must not accept: one that does not decode or
\* has expired, one that is not a refresh token, one without a subject.
Unacceptable(token) ==
    \/ token.condition # "valid"
    \/ token.claims.type # "refresh"
    \/ token.claims.sub = NULL

\* C18: refresh_access_token answers a malformed, expired or wrong-type token
\* and a token without a subject with 401 and no token pair; whatever fails
\* inside it is reported as 401, and a pair it issues is for the subject of an
\* acceptable refresh token.
C18_RefreshRejectsUnacceptableTokens ==
    last.op = "refresh_access_token" =>
        /\ last.status \in {200, 401}
        /\ Unacceptable(last.token) => last.status = 401
        /\ last.mint = "raise" => last.status = 401
        /\ last.status = 401 => last.result = NoPair
        /\ last.status = 200 =>
              /\ last.result.access_token.type = "access"
              /\ last.result.access_token.sub = last.token.claims.sub
              /\ last.result.refresh_token = create_refresh_token(last.token.claims.sub)

\* An access token of company A's user, intact and current, presented as a
\* refresh token and refused.
C18_Witness ==
    /\ last.op = "refresh_access_token"
    /\ last.token = [claims |-> create_access_token(UserA, "a@x.com"), condition |-> "valid"]
    /\ last.status = 401
    /\ last.result = NoPair

\* C19: a sign-in with an email and password that match no identity is
\* answered 401 "Invalid email or password", whether the credential store
\* returns no session or raises, and alike for a wrong email and a wrong
\* password.
C19_InvalidCredentialsAnswer401 ==
    [][ \A email \in Emails, password \in AccountPasswords :
          (/\ signin_user(email, password)
           /\ ~\E u \in auth_users : u.email = email /\ u.password = password) =>
              /\ last'.status = 401
              /\ last'.detail = "Invalid email or password" ]_vars

\* A Google sign-in answered with success.
GoogleSucceeded(req) == req.pc = "done" /\ req.status = 200

\* C20: after a successful signin_with_google the user's app_users row holds
\* the company_id the call returned, and it is not null; a Google sign-in
\* that follows a successful one of the same user returns the same
\* company_id, creates no row and reports is_new_user = false; is_new_user is
\* true exactly when the call created the profile row or the company.
C20_GoogleSigninResolvesOneCompany ==
    /\ [](\A r \in DOMAIN google :
            GoogleSucceeded(google[r]) =>
                /\ google[r].company_id # NULL
                /\ \E x \in app_users :
                       x.user_id = google[r].user_id /\ x.company_id = google[r].company_id
                /\ \A x \in app_users :
                       x.user_id = google[r].user_id => x.company_id = google[r].company_id)
    /\ [][ \A r \in DOMAIN google :
             (~GoogleSucceeded(google[r]) /\ GoogleSucceeded(google'[r])) =>
                 /\ google'[r].is_new_user <=> google'[r].inserted # {}
                 /\ google'[r].after # {} =>
                       /\ ~google'[r].is_new_user
                       /\ google'[r].inserted = {}
                       /\ \A q \in google'[r].after :
                              google[q].company_id = google'[r].company_id ]_vars

\* C21: once an owner or subcontractor record exists for a user, every later
\* owner, property-manager or subcontractor onboarding call by that user is
\* answered 409 and adds no role record; no identity has records of both
\* kinds, nor two of one kind.
RoleRecords(user_id) ==
    Cardinality({o \in owners : o.user_id = user_id})
        + Cardinality({s \in subcontractors : s.user_id = user_id})

ReferredProperties(ref, r) ==
    IF ref.kind = "uuid"
    THEN {p.id : p \in {x \in properties :
                            x.id = ref.id /\ x.company_id = onb[r].company_id}}
    ELSE {p.id : p \in {x \in properties :
                            /\ x.id \in onb[r].inserted
                            /\ lower(strip(x.name)) = lower(strip(ref.name))}}

\* The technician step of request r, when the references that name a property
\* are all but the missing ones and the given words: every technician is
\* inserted with the property its reference stands for, or the request is
\* answered 422 and no technician is inserted.
ResolvesOrFails(r, words) ==
    LET refs == onb[r].payload.technicians
        names(ref) == ref.kind = "uuid"
                          \/ (ref.kind = "name" /\ lower(strip(ref.name)) \notin words)
        added == technicians' \ technicians
    IN  IF \A i \in DOMAIN refs : names(refs[i]) => ReferredProperties(refs[i], r) # {}
        THEN /\ onb'[r].pc = "vendors"
             /\ Cardinality(added) = Len(refs)
             /\ \A i \in DOMAIN refs :
                    \E t \in added :
                        /\ t.id = nextId + i - 1
                        /\ t.company_id = onb[r].company_id
                        /\ IF names(refs[i])
                           THEN t.default_property_id \in ReferredProperties(refs[i], r)
                           ELSE t.default_property_id = NULL
        ELSE /\ onb'[r].pc = "done"
             /\ onb'[r].status = 422
             /\ added = {}
             /\ technicians' = technicians

\* C22 as stated: each technician's default property is resolved from a
\* property id of the caller's company or from a case-insensitive match on the
\* name of a property inserted earlier in the same request; a reference that
\* resolves to neither fails the call with 422, and no technician row of the
\* request is inserted.
C22_EveryReferenceResolvesOrFails ==
    [][ \A r \in Requests : onb_technicians(r) => ResolvesOrFails(r, {}) ]_vars

\* C22, amended: the same, for every reference that is not one of the
\* placeholder words; a placeholder word, like a missing reference, leaves the
\* technician without a default property.
C22_NamedReferenceResolvesOrFails ==
    [][ \A r \in Requests :
            onb_technicians(r) => ResolvesOrFails(r, PLACEHOLDER_VALUES) ]_vars

C22_Witness ==
    /\ \E r \in Requests :
           /\ onb[r].pc = "done"
           /\ onb[r].status = 422
           /\ onb[r].detail = "Unknown property reference"
           /\ onb[r].inserted # {}
           /\ onb[r].inserted \subseteq Ids(properties)
    /\ \A t \in technicians : t.company_id # CompanyA

\* C23: verify_email tries the direct link, the hashed token, the raw token
\* and the administrative force-confirm in this order; it returns success at
\* the first call that succeeds and makes no call after it; a call that
\* raises or does not succeed is followed by the next method; the
\* administrative method is tried only with a service key; the call fails
\* with "verification failed" exactly when every method it tried failed; a
\* blank token is answered 400 before any call.
MethodOfCall(call) ==
    IF call.method \in {"list", "confirm"} THEN "admin" ELSE call.method

C23_VerifyTriesMethodsInOrder ==
    last.op = "verify_email" =>
        LET calls == last.calls
            tried == {MethodOfCall(calls[i]) : i \in DOMAIN calls}
        IN  /\ last.blank =>
                /\ calls = <<>>
                /\ last.status = 400
                /\ last.detail = "Verification token is required"
            /\ ~last.blank =>
                /\ \A i \in DOMAIN calls :
                       MethodOfCall(calls[i]) = IF i <= 3 THEN TokenMethods[i] ELSE "admin"
                /\ \A i \in DOMAIN calls : calls[i].result = "success" => i = Len(calls)
                /\ "admin" \in tried => last.key
                /\ last.status = 200 <=> \E i \in DOMAIN calls : calls[i].result = "success"
                /\ last.status # 200 =>
                       /\ last.status = 400
                       /\ last.detail = "Email verification failed"
                       /\ {"direct", "hash", "raw"} \subseteq tried
                       /\ last.key => "admin" \in tried

C23_Witness ==
    /\ last.op = "verify_email"
    /\ last.status = 200
    /\ Len(last.calls) = 2
    /\ last.calls[1].result = "raise"
    /\ last.calls[2].method = "hash"
    /\ last.key

\* The first identity of a listing that has no confirmation, NULL for none.
RECURSIVE FirstUnconfirmed(_)
FirstUnconfirmed(listing) ==
    IF listing = <<>> THEN NULL
    ELSE IF Head(listing) \in Unconfirmed THEN Head(listing)
    ELSE FirstUnconfirmed(Tail(listing))

TokenMethodsFail(token, env) ==
    \A i \in DOMAIN TokenMethods : TokenMethod(TokenMethods[i], token, env).result # "success"

\* C30: with a service key, once the three token methods have failed,
\* verify_email succeeds as soon as the force-confirm of the first listed
\* unconfirmed identity succeeds, and that identity is the one confirmed;
\* the calls of the administrative method and their results are the same for
\* any two tokens the three token methods reject.
C30_ForceConfirmIgnoresToken ==
    /\ [](\A env \in VerifyEnvs : \A t1, t2 \in VerifyTokens :
              ( /\ env.key /\ ~t1.blank /\ ~t2.blank
                /\ TokenMethodsFail(t1, env) /\ TokenMethodsFail(t2, env) )
              => SubSeq(VerifyCalls(t1, env), 4, Len(VerifyCalls(t1, env)))
                     = SubSeq(VerifyCalls(t2, env), 4, Len(VerifyCalls(t2, env))))
    /\ [](\A env \in VerifyEnvs, token \in VerifyTokens :
              ( /\ ~token.blank /\ env.key /\ env.listing \in Listings
                /\ TokenMethodsFail(token, env)
                /\ FirstUnconfirmed(env.listing) # NULL
                /\ env.confirm[FirstUnconfirmed(env.listing)] = "200" )
              => /\ Len(VerifyCalls(token, env)) = 5
                 /\ VerifyCalls(token, env)[5] =
                        Call("confirm", FirstUnconfirmed(env.listing), "success"))
    /\ [][ (last'.op = "verify_email" /\ last'.status = 200) =>
               /\ last'.confirmed = last'.calls[Len(last'.calls)].user
               /\ \A u \in auth_users' :
                      u.confirmed <=>
                          \/ u.id = last'.confirmed
                          \/ \E x \in auth_users : x.id = u.id /\ x.confirmed ]_vars

C30_Witness ==
    /\ last.op = "verify_email"
    /\ last.status = 200
    /\ Len(last.calls) = 5
    /\ \A i \in 1..3 : last.calls[i].result = "failure"
    /\ last.calls[5] = Call("confirm", UserB, "success")
    /\ UserA \in Unconfirmed

\* C24: _normalize_timezone maps each alias to its canonical zone, returns a
\* canonical zone unchanged, returns the fallback for a missing value and
\* rejects every other text; normalizing an accepted result gives the same
\* result; the status query reports the stored zone and, as timezone_label,
\* the alias of that zone.
NormalizesAsClaimed(value, fallback) ==
    LET result == normalize_timezone(value, fallback)
        text == strip(value)
    IN  /\ (value \in {Unset, ""}) => (result.ok /\ result.timezone = fallback)
        /\ (value \notin {Unset, ""} /\ text \in DOMAIN TIMEZONE_ALIASES) =>
               (result.ok /\ result.timezone = TIMEZONE_ALIASES[text])
        /\ (value \notin {Unset, ""} /\ text \in REVERSE_TIMEZONE_ALIASES) =>
               (result.ok /\ result.timezone = text)
        /\ (value \notin {Unset, ""} /\ text \notin DOMAIN TIMEZONE_ALIASES
                                    /\ text \notin REVERSE_TIMEZONE_ALIASES) => ~result.ok
        /\ result.ok => normalize_timezone(result.timezone, fallback) = result

C24_TimezoneNormalization ==
    /\ [](\A value \in ZoneTexts, fallback \in StoredZones :
              NormalizesAsClaimed(value, fallback))
    /\ [][ \A r \in Requests :
             onb_update_company(r) =>
                 \E c \in companies' :
                     /\ c.id = onb[r].company_id
                     /\ c.settings.timezone =
                            normalize_timezone(onb[r].payload.timezone,
                                (CHOOSE x \in companies : x.id = c.id).settings.timezone
                            ).timezone
                     /\ c.settings.timezone \in REVERSE_TIMEZONE_ALIASES \cup {Unset} ]_vars
    /\ [][ \A u \in {UserA, UserB} :
             (get_onboarding_status(u) /\ last'.status = 200) =>
                 /\ \E c \in companies :
                        c.id = last'.company_id /\ c.settings.timezone = last'.timezone
                 /\ \A alias \in DOMAIN TIMEZONE_ALIASES :
                        last'.timezone = TIMEZONE_ALIASES[alias] =>
                            last'.timezone_label = alias ]_vars

C24_Witness ==
    /\ last.op = "get_onboarding_status"
    /\ last.status = 200
    /\ last.timezone = "America/Los_Angeles"
    /\ last.timezone_label = "Pacific (LA)"
    /\ \A r \in Requests : onb[r].pc = "done" /\ onb[r].status = 200

\* C25: get_work_orders returns only work orders of the caller's company that
\* match the status and priority filters given, at most limit of them,
\* starting at offset in descending creation order; total is the number of
\* all matching work orders, whatever limit and offset are.
C25_ListIsFilteredPageWithTotal ==
    [][ (last'.op = "list_work_orders" /\ last'.status = 200) =>
          LET page == last'.work_orders
              matches(r) ==
                  /\ r.company_id = last'.company
                  /\ last'.status_filter # Unset => r.status = last'.status_filter
                  /\ last'.priority_filter # Unset => r.priority = last'.priority_filter
              matching == {r \in work_orders : matches(r)}
              newer(r) == Cardinality({x \in matching : x.id > r.id})
          IN  /\ \E a \in app_users :
                     a.user_id = last'.user /\ a.company_id = last'.company
              /\ \A i \in DOMAIN page : page[i] \in matching
              /\ Len(page) <= last'.limit
              /\ \A i \in DOMAIN page : newer(page[i]) = last'.offset + i - 1
              /\ \A r \in matching :
                     (newer(r) >= last'.offset /\ newer(r) < last'.offset + last'.limit)
                         => \E i \in DOMAIN page : page[i] = r
              /\ last'.total = Cardinality(matching) ]_vars

C25_Witness ==
    /\ last.op = "list_work_orders"
    /\ last.status = 200
    /\ last.company = CompanyA
    /\ last.status_filter = "open"
    /\ last.limit = 1
    /\ last.offset = 1
    /\ last.total = 2
    /\ Len(last.work_orders) = 1
    /\ \E r \in work_orders : r.company_id = CompanyA /\ r.status = "done"

\* The payload of request r names an admin account, and its email, stripped
\* and in lower case, is or is not the acting user's.
AdminGiven(r) == onb[r].payload.admin # NoAdmin

AdminIsCaller(r) ==
    \E u \in auth_users :
        /\ u.id = onb[r].user
        /\ lower(strip(onb[r].payload.admin)) = lower(strip(u.email))

\* C26: the admin step of first-time onboarding creates an identity, writes
\* app_users or reports admin_user_created only when the payload names an
\* admin account whose email, stripped and in lower case, differs from the
\* acting user's; when the emails match, the step creates no identity, writes
\* no app_users row and goes on with admin_user_created false; and no later
\* step of the request changes what the summary will report.
C26_AdminSkippedForActingUser ==
    [][\A r \in Requests :
          /\ onb_admin(r) =>
                /\ (\/ auth_users' # auth_users
                    \/ app_users' # app_users
                    \/ onb'[r].admin_created) => (AdminGiven(r) /\ ~AdminIsCaller(r))
                /\ (AdminGiven(r) /\ AdminIsCaller(r)) =>
                      /\ auth_users' = auth_users
                      /\ app_users' = app_users
                      /\ onb'[r].pc = "properties"
                      /\ ~onb'[r].admin_created
          /\ (onb[r].pc \in {"properties", "technicians", "vendors"}) =>
                onb'[r].admin_created = onb[r].admin_created]_vars

\* A request that named the caller's email in another spelling has passed the
\* admin step: no identity was created and no profile row written.
C26_Witness ==
    \E r \in Requests :
        /\ onb[r].pc = "properties"
        /\ onb[r].payload.admin = " A@x.com "
        /\ ~onb[r].admin_created
        /\ auth_users = GuardUsers
        /\ \A x \in app_users : x.user_id = UserA => x.company_id = CompanyA

\* The identities that hold the admin email of request r, stripped and in
\* lower case.
AdminIdentities(r) ==
    {u.id : u \in {x \in auth_users : x.email = lower(strip(onb[r].payload.admin))}}

\* C29: when the admin account of a first-time onboarding names the email of
\* an existing identity and the credential store answers the listing, the
\* admin step links that identity to the acting company: it creates no
\* identity, every app_users row of the identity, and at least one, has the
\* acting company afterwards, and admin_user_created is false; when the email
\* belongs to no identity and creation fails, the request is answered 400.
C29_ExistingAdminIsLinked ==
    [][\A r \in Requests :
          \A e \in AdminReplies(lower(strip(onb[r].payload.admin))) :
              (/\ onb_admin(r)
               /\ AdminGiven(r)
               /\ ~AdminIsCaller(r)
               /\ e.list # "raise"
               /\ create_or_link_admin(r, e)) =>
                  /\ AdminIdentities(r) # {} =>
                        /\ auth_users' = auth_users
                        /\ onb'[r].pc = "properties"
                        /\ ~onb'[r].admin_created
                        /\ \A id \in AdminIdentities(r) :
                              /\ \E x \in app_users' : x.user_id = id
                              /\ \A x \in app_users' :
                                    x.user_id = id => x.company_id = onb[r].company_id
                  /\ (AdminIdentities(r) = {} /\ e.create = "raise") =>
                        /\ onb'[r].pc = "done"
                        /\ onb'[r].status = 400]_vars

\* Request q was answered 422 at technician resolution after it had inserted
\* properties.
FailedAfterProperties(q) ==
    /\ onb[q].pc = "done"
    /\ onb[q].status = 422
    /\ onb[q].detail = "Unknown property reference"
    /\ onb[q].inserted # {}

\* C28: when a first-time onboarding with a non-empty properties list fails
\* at technician resolution, the company row holds the settings of the
\* request, an admin it created exists, and the properties it inserted are in
\* the store; and every onboarding request of that company that starts after
\* such a failure is answered 409.
C28_FailedOnboardingKeepsWrites ==
    [][\A r \in Requests :
          /\ (/\ onb[r].pc = "technicians"
              /\ onb'[r].pc = "done"
              /\ onb[r].payload.properties # <<>>) =>
                /\ onb'[r].status = 422
                /\ \E x \in companies' :
                      /\ x.id = onb[r].company_id
                      /\ x.settings =
                            [timezone |-> onb[r].timezone,
                             work_hours_start |->
                                 normalize_time(onb[r].payload.work_hours_start).text,
                             work_hours_end |->
                                 normalize_time(onb[r].payload.work_hours_end).text]
                /\ onb[r].admin_created =>
                      \E u \in auth_users' : u.email = lower(strip(onb[r].payload.admin))
                /\ Cardinality(onb[r].inserted) = Len(onb[r].payload.properties)
                /\ \A id \in onb[r].inserted :
                      \E p \in properties' : p.id = id /\ p.company_id = onb[r].company_id
                /\ ~\E t \in technicians' : t.company_id = onb[r].company_id
          /\ (/\ onb[r].pc = "idle"
              /\ onb'[r].pc # "idle"
              /\ \E q \in Requests :
                    FailedAfterProperties(q) /\ onb[q].company_id = onb'[r].company_id) =>
                /\ onb'[r].pc = "done"
                /\ onb'[r].status = 409]_vars

\* A request failed at technician resolution after creating an admin and
\* inserting a property, and the next request of the company was answered
\* 409.
C28_Witness ==
    \E q, r \in Requests :
        /\ FailedAfterProperties(q)
        /\ onb[q].admin_created
        /\ EmailTaken(AdminEmail)
        /\ \E p \in properties : p.company_id = CompanyA /\ p.id \in onb[q].inserted
        /\ \E x \in companies : x.id = CompanyA /\ x.settings # NoSettings
        /\ onb[r].pc = "done"
        /\ onb[r].status = 409
        /\ onb[r].company_id = CompanyA

\* The identity is in the credential store with a confirmation timestamp.
Confirmed(user_id) == \E u \in auth_users : u.id = user_id /\ u.confirmed

HandlerOps == {"get_properties", "create_property"}

VerificationOps == {"verify_email_with_otp", "verify_email"}

\* C27: get_current_active_user lets a request through only as the identity
\* of its token and only when that identity is confirmed, and answers 403
\* for an identity it resolved that is not; a step in which a handler for
\* properties runs or a resource table changes is a request whose caller is
\* confirmed; and an identity that signup left unconfirmed becomes confirmed
\* only in a step that is an email verification answered with success.
C27_UnconfirmedCallerIsRejected ==
    /\ [](\A token \in GateTokens : \A e \in GateReplies(token) :
             LET caller == get_current_active_user(token, e)
             IN  /\ caller.status = 200 =>
                       (caller.user_id = token.claims.sub /\ Confirmed(caller.user_id))
                 /\ (get_current_user(token, e).status = 200
                        /\ ~Confirmed(token.claims.sub)) =>
                       (caller.status = 403 /\ caller.detail = "Email not verified"))
    /\ [][/\ crudTables' # crudTables => last'.op \in HandlerOps
          /\ last'.op \in HandlerOps =>
                \A token \in GateTokens : \A e \in GateReplies(token) :
                    (\/ GET_properties(token, e)
                     \/ \E name \in CreateNames : POST_properties(token, e, name)) =>
                        Confirmed(token.claims.sub)
          /\ \A u \in auth_users, v \in auth_users' :
                (u.id = v.id /\ ~u.confirmed /\ v.confirmed) =>
                    (last'.op \in VerificationOps /\ last'.status = 200)]_vars

\* A user who signed up and has a company, and whom signin_user would give
\* tokens, was answered 403 on a request for properties.
C27_Witness ==
    /\ last.op = "get_current_active_user"
    /\ last.status = 403
    /\ \E u \in auth_users :
          /\ u.id = last.user_id
          /\ ~u.confirmed
          /\ ~SigninRejects([kind |-> "session", user |-> u])
          /\ \E r \in app_users : r.user_id = u.id /\ r.company_id # NULL
    /\ properties = {}

====
